---- MODULE Spec2Model ----
(***************************************************************************)
(* A model of syncr, a peer-to-peer file synchronisation daemon.           *)
(*                                                                         *)
(* Two nodes, "A" and "B", run the program: each has a metadata store      *)
(* (store.rs), a daemon with responder sessions (cli/serve.rs), and        *)
(* initiator tasks (cli/copy.rs, cli/sync.rs, sync_manager.rs).  A third   *)
(* identity, "K", is a peer that runs another implementation of the wire   *)
(* protocol: what it sends is chosen freely.                               *)
(*                                                                         *)
(* A path is a sequence of components; "/" as first component makes it     *)
(* absolute.  A file content is a sequence of bytes.                       *)
(***************************************************************************)
EXTENDS Integers, Sequences, FiniteSets, TLC

VARIABLES
    permissions,  \* store.rs `permissions` tree, per node: path -> Vec<PublicKey>
    syncs,        \* store.rs `syncs` tree, per node: local path -> Vec<SyncConfig>
    watches,      \* store.rs `watches` tree, per node: set of paths
    running,      \* per node: serve::run has started the daemon
    armed,        \* per node: the roots the running FileWatcher watches
    manager,      \* per node: the watcher's channel and the SyncManager event loop
    files,        \* per node: the regular files of the file system
    conns,        \* the sessions: initiator task, stream, responder session
    log           \* the calls of the store and of the delta engine made one by one,
                  \* with what they returned; the contents a peer served

vars == <<permissions, syncs, watches, running, armed, manager, files, conns, log>>

----------------------------------------------------------------------------
(* Bounds of the model.                                                    *)

\* Sessions opened in one behaviour, by tasks of the program and by peers.
MaxConns == 3
\* Sessions among them that peers of another implementation open.
MaxPeers == 1
\* Commands typed on a node next to its daemon, and connections a peer opens
\* meanwhile.
MaxCommands == 1
\* Writes to the files of a node by processes other than the program.
MaxChanges == 1
\* Calls of the store made one by one.
MaxOps == 4
\* Length of the contents the delta engine is run on.
MaxLen == 3
\* Length of the path strings a notification is mapped with.
MaxStr == 4
\* File system events the OS reports while the watcher is studied on its own.
MaxEvents == 4
\* The capacity of the watcher's channel (100 in watcher.rs), scaled down.
ModelChannel == 2
\* Frames a peer of another implementation sends on one stream.
MaxFrames == 3
\* Frames such a peer has in flight, sent and not yet read by the responder.
MaxInFlight == 1

----------------------------------------------------------------------------
(* Identities, paths and the file system.                                  *)

Nodes == {"A", "B"}
Foreign == {"K"}
Peers == Nodes \cup Foreign

DATA == <<"/", "data">>
FILE_A == <<"/", "data", "a.txt">>
FILE_B == <<"/", "data", "b.txt">>
LINK == <<"/", "data", "link">>
REL_A == <<"a.txt">>
REL_NOPE == <<"nope">>
NoPath == <<>>

\* The regular files a node may hold, and its directories.
FilePaths == {FILE_A, FILE_B}
DirPaths == {DATA}
\* Every path string that reaches the program (command line or wire).
AllPaths == {DATA, FILE_A, FILE_B, LINK, REL_A, REL_NOPE}

Bytes == {1, 2}
Contents == {<<1>>, <<2>>, <<1, 2>>}
Absent == [kind |-> "absent", data |-> <<>>, readable |-> TRUE]
File(d) == [kind |-> "file", data |-> d, readable |-> TRUE]
Dir == [kind |-> "dir", data |-> <<>>, readable |-> TRUE]
\* A regular file the process may not read.
Unreadable(d) == [File(d) EXCEPT !.readable = FALSE]

is_absolute(p) == p # NoPath /\ p[1] = "/"

\* The working directory of every process is /data; /data/link is a symbolic
\* link to /data/a.txt.  Follow(p) is the path with the working directory
\* prepended and symbolic links followed, whether or not it exists.
Follow(p) ==
    LET abs == IF is_absolute(p) THEN p ELSE DATA \o p
    IN  IF abs = LINK THEN FILE_A ELSE abs

is_file(n, p) == Follow(p) \in FilePaths /\ files[n][Follow(p)].kind = "file"
is_dir(n, p) ==
    \/ Follow(p) \in DirPaths
    \/ Follow(p) \in FilePaths /\ files[n][Follow(p)].kind = "dir"
exists(n, p) == is_dir(n, p) \/ is_file(n, p)

\* std::fs::create_dir_all(p) is Ok when p is a directory or can be made
\* one: nothing is at p yet.  Its parent is a directory for every path of
\* the model.
CanMkdir(n, p) ==
    LET abs == IF is_absolute(p) THEN p ELSE DATA \o p
    IN  \/ is_dir(n, p)
        \/ abs \in FilePaths /\ files[n][abs].kind = "absent"
create_dir_all(fs, p) == IF Follow(p) \in FilePaths THEN [fs EXCEPT ![Follow(p)] = Dir] ELSE fs

\* std::fs::canonicalize: the absolute, symlink-free form of an existing
\* path; NoPath stands for its Err.
canonicalize(n, p) == IF exists(n, p) THEN Follow(p) ELSE NoPath

\* Path::starts_with / Path::strip_prefix: by whole components.
IsPrefixPath(base, p) == Len(base) <= Len(p) /\ SubSeq(p, 1, Len(base)) = base
strip_prefix(p, base) == SubSeq(p, Len(base) + 1, Len(p))

\* str::starts_with on the strings of two paths.  No component name of the
\* model is a proper prefix of another, so the strings compare as the
\* components do, the last one of the prefix included.
str_starts_with(p, q) == IsPrefixPath(q, p)

\* PathBuf::join: an absolute right-hand side replaces the left-hand side.
join(base, rel) == IF is_absolute(rel) THEN rel ELSE base \o rel

\* The keys of a sled tree come in byte order.
KeyOrder == <<DATA, FILE_A, FILE_B, LINK, REL_A, REL_NOPE>>

----------------------------------------------------------------------------
(* The metadata store (store.rs).  Each operation gives the new value of   *)
(* the one tree it writes.                                                 *)

Contains(seq, x) == \E i \in 1..Len(seq) : seq[i] = x

RECURSIVE RemoveAt(_, _)
RemoveAt(seq, pos) ==
    IF seq = <<>> THEN <<>>
    ELSE IF pos = 1 THEN Tail(seq)
    ELSE <<Head(seq)>> \o RemoveAt(Tail(seq), pos - 1)

Position(seq, x) == CHOOSE i \in 1..Len(seq) : seq[i] = x /\ \A j \in 1..(i - 1) : seq[j] # x

\* A lookup that also grants what the parent directory grants.
get_permissions_inherited(perm, path) ==
    IF Len(path) > 2 THEN perm[path] \o perm[SubSeq(path, 1, Len(path) - 1)] ELSE perm[path]

get_permissions(perm, path) == perm[path]

\* An allow_peer that pushes without looking.
allow_peer_pushes(perm, path, peer) ==
    [perm EXCEPT ![path] = Append(@, peer)]

allow_peer(perm, path, peer) ==
    IF ~Contains(perm[path], peer)
    THEN [perm EXCEPT ![path] = Append(@, peer)]
    ELSE perm

\* A disallow_peer that clears the list of the path.
disallow_peer_clears(perm, path, peer) ==
    IF Contains(perm[path], peer) THEN [perm EXCEPT ![path] = <<>>] ELSE perm

disallow_peer(perm, path, peer) ==
    IF Contains(perm[path], peer)
    THEN [perm EXCEPT ![path] = RemoveAt(@, Position(@, peer))]
    ELSE perm

SyncConfig(peer, remote_path) == [peer |-> peer, remote_path |-> remote_path]

\* An add_sync that skips an entry the path already has.
add_sync_dedups(sy, peer, remote_path, local_path) ==
    IF Contains(sy[local_path], SyncConfig(peer, remote_path))
    THEN sy
    ELSE [sy EXCEPT ![local_path] = Append(@, SyncConfig(peer, remote_path))]

add_sync(sy, peer, remote_path, local_path) ==
    [sy EXCEPT ![local_path] = Append(@, SyncConfig(peer, remote_path))]

add_watch(w, path) == w \cup {path}

remove_watch(w, path) == w \ {path}

\* A remove_watch that reports a removal whatever the tree held.
remove_watch_returns_true(w, path) == TRUE

\* What remove_watch returns: old.is_some().
remove_watch_returns(w, path) == path \in w

\* list_watches: the keys of the tree, in key order.
RECURSIVE WatchesFrom(_, _)
WatchesFrom(w, i) ==
    IF i > Len(KeyOrder) THEN <<>>
    ELSE (IF KeyOrder[i] \in w THEN <<KeyOrder[i]>> ELSE <<>>) \o WatchesFrom(w, i + 1)

list_watches(w) == WatchesFrom(w, 1)

\* list_syncs: the (local_path, configs) pairs of the tree, in key order.
RECURSIVE ListFrom(_, _)
ListFrom(sy, i) ==
    IF i > Len(KeyOrder) THEN <<>>
    ELSE (IF sy[KeyOrder[i]] # <<>> THEN <<<<KeyOrder[i], sy[KeyOrder[i]]>>>> ELSE <<>>)
         \o ListFrom(sy, i + 1)

list_syncs(sy) == ListFrom(sy, 1)

----------------------------------------------------------------------------
(* The delta engine (sync_utils.rs over fast_rsync).  The signature holds,  *)
(* for every block of the old data, the block's length and its hash: the   *)
(* rolling checksum with the strong hash cut to CRYPTO_HASH_SIZE bytes, a  *)
(* value of fixed width.  ok = FALSE stands for bytes that do not parse.   *)

\* BLOCK_SIZE of sync_utils.rs (1024), scaled to the contents of the model.
ModelBlockSize == 2

\* The values a block's hash can take: 2^(32 + 8 * CRYPTO_HASH_SIZE) in
\* sync_utils.rs, fewer than there are blocks; scaled likewise.
ModelHashSpace == 3

RECURSIVE BlockHash(_)
BlockHash(block) ==
    IF block = <<>> THEN 0
    ELSE (Head(block) + 2 * BlockHash(Tail(block))) % ModelHashSpace

BlockEntry(block) == [len |-> Len(block), hash |-> BlockHash(block)]

RECURSIVE Chunks(_, _)
Chunks(data, size) ==
    IF data = <<>> THEN <<>>
    ELSE IF Len(data) <= size THEN <<data>>
    ELSE <<SubSeq(data, 1, size)>> \o Chunks(SubSeq(data, size + 1, Len(data)), size)

NoSignature == [ok |-> FALSE, blocks |-> <<>>]
NoDelta == [ok |-> FALSE, ops |-> <<>>]

calculate_signature(data) ==
    LET chunks == Chunks(data, ModelBlockSize)
    IN  [ok |-> TRUE, blocks |-> [i \in 1..Len(chunks) |-> BlockEntry(chunks[i])]]

Copy(off, len) == [op |-> "copy", off |-> off, len |-> len, lit |-> <<>>]
Literal(bytes) == [op |-> "literal", off |-> 0, len |-> Len(bytes), lit |-> bytes]

\* fast_rsync::diff: slide a window of one block over the new data; a window
\* whose hash is that of a block of the signature becomes a copy of that block,
\* every other byte a literal.
RECURSIVE Diff(_, _, _)
Diff(blocks, data, lit) ==
    LET flush == IF lit = <<>> THEN <<>> ELSE <<Literal(lit)>>
    IN  IF Len(data) < ModelBlockSize
        THEN (IF lit \o data = <<>> THEN <<>> ELSE <<Literal(lit \o data)>>)
        ELSE LET window == SubSeq(data, 1, ModelBlockSize)
                 hits == {i \in 1..Len(blocks) : blocks[i] = BlockEntry(window)}
             IN  IF hits # {}
                 THEN flush
                      \o <<Copy((CHOOSE i \in hits : \A j \in hits : i >= j) - 1, 1)>>
                      \o Diff(blocks, SubSeq(data, ModelBlockSize + 1, Len(data)), <<>>)
                 ELSE Diff(blocks, Tail(data), Append(lit, Head(data)))

\* Copy(off, len) counts in blocks here: block off of the old data, len blocks.
calculate_delta(signature, new_data) ==
    IF ~signature.ok THEN NoDelta
    ELSE [ok |-> TRUE, ops |-> Diff(signature.blocks, new_data, <<>>)]

RECURSIVE Apply(_, _)
Apply(old, ops) ==
    IF ops = <<>> THEN [ok |-> TRUE, data |-> <<>>]
    ELSE LET o == Head(ops)
             rest == Apply(old, Tail(ops))
             first == o.off * ModelBlockSize + 1
             last == (o.off + o.len) * ModelBlockSize
         IN  IF ~rest.ok THEN rest
             ELSE IF o.op = "literal" THEN [ok |-> TRUE, data |-> o.lit \o rest.data]
             ELSE IF last <= Len(old)
                  THEN [ok |-> TRUE, data |-> SubSeq(old, first, last) \o rest.data]
                  ELSE [ok |-> FALSE, data |-> <<>>]

apply_delta(old_data, delta) ==
    IF ~delta.ok THEN [ok |-> FALSE, data |-> <<>>] ELSE Apply(old_data, delta.ops)

----------------------------------------------------------------------------
(* Frames (protocol.rs, as cli/serve.rs and cli/copy.rs use them).         *)

Frame(t) ==
    [type |-> t, path |-> NoPath, data |-> <<>>, signature |-> NoSignature,
     delta |-> NoDelta, files |-> <<>>, version |-> 0, message |-> ""]
NoFrame == Frame("None")
Handshake(v) == [Frame("Handshake") EXCEPT !.version = v]
StartSync(p) == [Frame("StartSync") EXCEPT !.path = p]
FileRequest(p) == [Frame("FileRequest") EXCEPT !.path = p]
ListRequest(p) == [Frame("ListRequest") EXCEPT !.path = p]
FileUpdateNotification(p) == [Frame("FileUpdateNotification") EXCEPT !.path = p]
FileSignature(p, sig) == [Frame("FileSignature") EXCEPT !.path = p, !.signature = sig]
FileDelta(p, d) == [Frame("FileDelta") EXCEPT !.path = p, !.delta = d]
\* offset is 0 and is_last is true in every FileData the program builds.
FileData(p, d) == [Frame("FileData") EXCEPT !.path = p, !.data = d]
FileMetadata(p, dir) == [path |-> p, is_dir |-> dir]
ListResponse(fs) == [Frame("ListResponse") EXCEPT !.files = fs]
\* An Error frame; path is the path its message quotes, when it quotes one.
Error(m, p) == [Frame("Error") EXCEPT !.message = m, !.path = p]

\* Bytes on the stream that read_message cannot make a Message of: a
\* truncated frame, a payload that does not decode.
Undecodable == Frame("Undecodable")

AccessDenied == "Access denied or path not allowed"
FileNotFound == "File not found"
DeltaFailed == "Delta calculation failed"

----------------------------------------------------------------------------
(* Sessions.                                                               *)

\* A session: the initiator (a task of this program on node init, or a peer
\* of another implementation), the two directions of the stream, and the
\* responder.  rwrote, rread, iread, isent and first record what each side
\* has done on the stream so far.  owner tells a task of a command ("cli") from
\* one the daemon spawned.  sync, todo, target, had_local, local_data
\* and new_data are the locals of a copy::run task.
NewConn(init, resp, kind, remote_path, local_path) ==
    [init |-> init, resp |-> resp, kind |-> kind,
     remote_path |-> remote_path, local_path |-> local_path,
     ipc |-> IF kind = "peer" THEN "open" ELSE "start", rpc |-> "init",
     toR |-> <<>>, toI |-> <<>>,
     isent |-> 0, iread |-> FALSE, rwrote |-> FALSE, rread |-> FALSE,
     rfirst |-> NoFrame, ifirst |-> NoFrame,
     iclosed |-> FALSE, rgone |-> FALSE, owner |-> "cli",
     sync |-> FALSE, todo |-> <<>>, target |-> NoPath,
     had_local |-> FALSE, local_data |-> <<>>, new_data |-> <<>>,
     sent |-> <<>>, got |-> FALSE, existing |-> <<>>]

ConnIds == 1..Len(conns)

\* write_message on the responder's SendStream queues the frame for the
\* initiator; on a connection the initiator has closed it fails, and the `?`
\* ends handle_connection with the error.
RespWrite(cn, f) ==
    IF cn.iclosed
    THEN [cn EXCEPT !.rpc = "failed"]
    ELSE [cn EXCEPT !.toI = Append(@, f),
                    !.rwrote = TRUE,
                    !.rfirst = IF cn.rwrote THEN @ ELSE f]

\* read_message on the responder's RecvStream took the head of the queue.
RespRead(cn) == [cn EXCEPT !.toR = Tail(@), !.rread = TRUE]

----------------------------------------------------------------------------
(* The file watcher (watcher.rs) and the state of the SyncManager event    *)
(* loop (sync_manager.rs).                                                 *)

\* os: the events the OS has for the watcher's callback thread, oldest first;
\* held: the path the callback holds while it is blocked in blocking_send,
\* NoPath when it is not; events: the paths in the watcher's channel; todo:
\* the notifications handle_local_change still has to send, <<peer, remote
\* path>> each; cur: the session of the notify_peer it awaits, 0 when none.
\* changed: the files that processes other than the program have written.
\* lock: who holds the mutex around the FileWatcher ("free", "loop" for the
\* event loop, "task" for another task of the SyncManager); waiter: where
\* that other task is ("none", "waiting" in lock().await, "holding", "done").
Idle == [os |-> <<>>, held |-> NoPath, events |-> <<>>, todo |-> <<>>, cur |-> 0,
         changed |-> <<>>, lock |-> "free", waiter |-> "none"]

\* A change at path p of node n: the OS has an event for the watcher when p
\* is at or under a root the watcher is armed on.
Changed(mg, n, p) ==
    IF running[n] /\ \E root \in armed[n] : IsPrefixPath(root, p)
    THEN [mg EXCEPT ![n].os = Append(@, p)]
    ELSE mg

\* The callback of the watcher runs on the watcher's thread, one event at a
\* time: tx.blocking_send(Ok(path)) puts the path into the channel when the
\* channel has room, and blocks the thread until it has when it is full.
Callback(n) ==
    LET mg == manager[n]
        room == Len(mg.events) < ModelChannel
        path == IF mg.held # NoPath THEN mg.held ELSE Head(mg.os)
        rest == IF mg.held # NoPath THEN mg.os ELSE Tail(mg.os)
    IN  /\ mg.held # NoPath \/ mg.os # <<>>
        /\ mg.held # NoPath => room
        /\ manager' = [manager EXCEPT ![n] =
                          IF room
                          THEN [mg EXCEPT !.events = Append(@, path), !.held = NoPath, !.os = rest]
                          ELSE [mg EXCEPT !.held = path, !.os = rest]]
        /\ UNCHANGED <<permissions, syncs, watches, running, armed, files, conns, log>>

----------------------------------------------------------------------------
(* Operator commands (cli/allow.rs, cli/watch.rs) and the daemon start.    *)

run_allow(n, peer, path) ==
    LET abs_path == canonicalize(n, path)
    IN  /\ abs_path # NoPath
        /\ permissions' = [permissions EXCEPT ![n] = allow_peer(@, abs_path, peer)]
        /\ UNCHANGED <<syncs, watches, running, armed, manager, files, conns, log>>

run_disallow(n, peer, path) ==
    LET abs_path == canonicalize(n, path)
    IN  /\ abs_path # NoPath
        /\ permissions' = [permissions EXCEPT ![n] = disallow_peer(@, abs_path, peer)]
        /\ UNCHANGED <<syncs, watches, running, armed, manager, files, conns, log>>

watch_run(n, path, delete) ==
    LET abs_path == canonicalize(n, path)
    IN  /\ abs_path # NoPath
        /\ watches' = [watches EXCEPT ![n] = IF delete THEN remove_watch(@, abs_path)
                                                       ELSE add_watch(@, abs_path)]
        /\ UNCHANGED <<permissions, syncs, running, armed, manager, files, conns, log>>

\* A start that gives up arming when a stored watch does not exist.
serve_run_strict(n) ==
    /\ ~running[n]
    /\ running' = [running EXCEPT ![n] = TRUE]
    /\ armed' = [armed EXCEPT ![n] = IF \A p \in watches[n] : exists(n, p)
                                     THEN watches[n] ELSE {}]
    /\ UNCHANGED <<permissions, syncs, watches, manager, files, conns, log>>

\* serve::run up to the accept loop: SyncManager::run arms the watcher on
\* every stored watch that exists.
serve_run(n) ==
    /\ ~running[n]
    /\ running' = [running EXCEPT ![n] = TRUE]
    /\ armed' = [armed EXCEPT ![n] = {p \in watches[n] : exists(n, p)}]
    /\ UNCHANGED <<permissions, syncs, watches, manager, files, conns, log>>

----------------------------------------------------------------------------
(* The responder: handle_connection of cli/serve.rs.                       *)

\* A responder that goes on to read without sending its Handshake.
RespSkipsHandshake(c) ==
    LET cn == conns[c]
    IN  /\ cn.resp \in Nodes
        /\ running[cn.resp]
        /\ cn.ipc # "start"
        /\ cn.rpc = "init"
        /\ conns' = [conns EXCEPT ![c].rpc = "handshake"]
        /\ UNCHANGED <<permissions, syncs, watches, running, armed, manager, files, log>>

\* accept, accept_bi, then the responder writes its Handshake.
RespSendHandshake(c) ==
    LET cn == conns[c]
    IN  /\ cn.resp \in Nodes
        /\ running[cn.resp]
        /\ cn.ipc # "start"
        /\ cn.rpc = "init"
        /\ conns' = [conns EXCEPT ![c] =
                        LET w == RespWrite(cn, Handshake(1))
                        IN  IF w.rpc = "failed" THEN w ELSE [w EXCEPT !.rpc = "handshake"]]
        /\ UNCHANGED <<permissions, syncs, watches, running, armed, manager, files, log>>

\* A responder that goes on to serve whatever the first frame is.
RespReadHandshakeAny(c) ==
    LET cn == conns[c]
    IN  /\ cn.resp \in Nodes
        /\ cn.rpc = "handshake"
        /\ cn.toR # <<>>
        /\ conns' = [conns EXCEPT ![c] = [RespRead(cn) EXCEPT !.rpc = "serving"]]
        /\ UNCHANGED <<permissions, syncs, watches, running, armed, manager, files, log>>

\* It reads one frame, which must be a Handshake.
RespReadHandshake(c) ==
    LET cn == conns[c]
    IN  /\ cn.resp \in Nodes
        /\ cn.rpc = "handshake"
        /\ \/ /\ cn.toR # <<>>
              /\ conns' = [conns EXCEPT ![c] =
                    [RespRead(cn) EXCEPT !.rpc = IF Head(cn.toR).type = "Handshake"
                                                 THEN "serving" ELSE "failed"]]
           \/ /\ cn.toR = <<>>
              /\ cn.iclosed
              /\ conns' = [conns EXCEPT ![c].rpc = "failed"]
        /\ UNCHANGED <<permissions, syncs, watches, running, armed, manager, files, log>>

\* The serving loop has a frame of this type to read.
Serving(c, type) ==
    /\ conns[c].resp \in Nodes
    /\ conns[c].rpc = "serving"
    /\ conns[c].toR # <<>>
    /\ Head(conns[c].toR).type = type

\* read_message fails on this session: the peer has closed the stream, or
\* what it sent does not decode.
ReadError(cn) ==
    \/ cn.toR = <<>> /\ cn.iclosed
    \/ cn.toR # <<>> /\ Head(cn.toR) = Undecodable

\* A serving loop that returns the read error.
RespReadErrorFails(c) ==
    LET cn == conns[c]
    IN  /\ cn.resp \in Nodes
        /\ cn.rpc = "serving"
        /\ ReadError(cn)
        /\ conns' = [conns EXCEPT ![c].rpc = "failed", ![c].toR = <<>>]
        /\ UNCHANGED <<permissions, syncs, watches, running, armed, manager, files, log>>

\* read_message fails in the serving loop: the loop ends, the session is over
\* and handle_connection returns Ok.
RespReadError(c) ==
    LET cn == conns[c]
    IN  /\ cn.resp \in Nodes
        /\ cn.rpc = "serving"
        /\ ReadError(cn)
        /\ conns' = [conns EXCEPT ![c].rpc = "closed", ![c].toR = <<>>]
        /\ UNCHANGED <<permissions, syncs, watches, running, armed, manager, files, log>>

\* tokio::fs::read(..).await? in an arm of the serving loop: when the read
\* fails handle_connection returns the error, with no reply.
ReadFails(n, path) == exists(n, path) /\ is_file(n, path) /\ ~files[n][Follow(path)].readable

\* A FileRequest arm that serves only the peers in permissions(path).
RespFileRequestChecked(c) ==
    LET cn == conns[c]
        n == cn.resp
        path == Head(cn.toR).path
        resp == IF ~Contains(get_permissions(permissions[n], path), cn.init)
                THEN Error(AccessDenied, NoPath)
                ELSE IF exists(n, path) /\ is_file(n, path)
                THEN FileData(path, files[n][Follow(path)].data)
                ELSE Error(FileNotFound, path)
    IN  /\ Serving(c, "FileRequest")
        /\ conns' = [conns EXCEPT ![c] =
                        IF ReadFails(n, path)
                        THEN [RespRead(cn) EXCEPT !.rpc = "failed"]
                        ELSE RespWrite(RespRead(cn), resp)]
        /\ UNCHANGED <<permissions, syncs, watches, running, armed, manager, files, log>>

RespFileRequest(c) ==
    LET cn == conns[c]
        n == cn.resp
        path == Head(cn.toR).path
        resp == IF exists(n, path) /\ is_file(n, path)
                THEN FileData(path, files[n][Follow(path)].data)
                ELSE Error(FileNotFound, path)
    IN  /\ Serving(c, "FileRequest")
        /\ conns' = [conns EXCEPT ![c] =
                        IF ReadFails(n, path)
                        THEN [RespRead(cn) EXCEPT !.rpc = "failed"]
                        ELSE RespWrite(RespRead(cn), resp)]
        /\ UNCHANGED <<permissions, syncs, watches, running, armed, manager, files, log>>

RespFileSignature(c) ==
    LET cn == conns[c]
        n == cn.resp
        path == Head(cn.toR).path
        delta == calculate_delta(Head(cn.toR).signature, files[n][Follow(path)].data)
        resp == IF exists(n, path) /\ is_file(n, path)
                THEN (IF delta.ok THEN FileDelta(path, delta) ELSE Error(DeltaFailed, NoPath))
                ELSE Error(FileNotFound, path)
    IN  /\ Serving(c, "FileSignature")
        /\ conns' = [conns EXCEPT ![c] =
                        IF ReadFails(n, path)
                        THEN [RespRead(cn) EXCEPT !.rpc = "failed"]
                        ELSE RespWrite(RespRead(cn), resp)]
        /\ UNCHANGED <<permissions, syncs, watches, running, armed, manager, files, log>>

\* The path StartSync looks up and registers: an absolute path as received,
\* a relative one canonicalized, or as received when that fails.
abs_path(n, path) ==
    IF is_absolute(path) THEN path
    ELSE IF canonicalize(n, path) # NoPath THEN canonicalize(n, path) ELSE path

\* A StartSync arm that registers the watch before it checks the permission.
RespStartSyncWatchFirst(c) ==
    LET cn == conns[c]
        n == cn.resp
        remote_id == cn.init
        path == Head(cn.toR).path
        key == abs_path(n, path)
        allowed_peers == get_permissions(permissions[n], key)
    IN  /\ Serving(c, "StartSync")
        /\ watches' = [watches EXCEPT ![n] = add_watch(@, key)]
        /\ IF Contains(allowed_peers, remote_id)
           THEN /\ syncs' = [syncs EXCEPT ![n] = add_sync(@, remote_id, path, key)]
                /\ conns' = [conns EXCEPT ![c] = RespRead(cn)]
           ELSE /\ conns' = [conns EXCEPT ![c] =
                                RespWrite(RespRead(cn), Error(AccessDenied, NoPath))]
                /\ UNCHANGED syncs
        /\ UNCHANGED <<permissions, running, armed, manager, files, log>>

RespStartSync(c) ==
    LET cn == conns[c]
        n == cn.resp
        remote_id == cn.init
        path == Head(cn.toR).path
        key == abs_path(n, path)
        allowed_peers == get_permissions(permissions[n], key)
    IN  /\ Serving(c, "StartSync")
        /\ IF Contains(allowed_peers, remote_id)
           THEN /\ syncs' = [syncs EXCEPT ![n] = add_sync(@, remote_id, path, key)]
                /\ watches' = [watches EXCEPT ![n] = add_watch(@, key)]
                /\ conns' = [conns EXCEPT ![c] = RespRead(cn)]
           ELSE /\ conns' = [conns EXCEPT ![c] =
                                RespWrite(RespRead(cn), Error(AccessDenied, NoPath))]
                /\ UNCHANGED <<syncs, watches>>
        /\ UNCHANGED <<permissions, running, armed, manager, files, log>>

\* The frames without an arm of their own: logged, no reply.
Unhandled == {"Handshake", "ListRequest", "ListResponse", "FileData", "FileDelta", "Error"}

RespOther(c) ==
    LET cn == conns[c]
    IN  /\ \E t \in Unhandled : Serving(c, t)
        /\ conns' = [conns EXCEPT ![c] = RespRead(cn)]
        /\ UNCHANGED <<permissions, syncs, watches, running, armed, manager, files, log>>

\* The pulls a FileUpdateNotification{path} from remote_id starts: one
\* (remote path, local target) per matching config, in the order of the scan.
RECURSIVE MatchConfigs(_, _, _, _)
MatchConfigs(local_root, configs, remote_id, path) ==
    IF configs = <<>> THEN <<>>
    ELSE LET config == Head(configs)
             rest == MatchConfigs(local_root, Tail(configs), remote_id, path)
         IN  IF config.peer # remote_id THEN rest
             ELSE IF path = config.remote_path THEN <<local_root>> \o rest
             ELSE IF str_starts_with(path, config.remote_path)
                     /\ IsPrefixPath(config.remote_path, path)
                  THEN <<join(local_root, strip_prefix(path, config.remote_path))>> \o rest
             ELSE rest

RECURSIVE MatchSyncs(_, _, _)
MatchSyncs(list, remote_id, path) ==
    IF list = <<>> THEN <<>>
    ELSE MatchConfigs(Head(list)[1], Head(list)[2], remote_id, path)
         \o MatchSyncs(Tail(list), remote_id, path)

\* tokio::spawn(copy::run(remote_id, path, target)) for each target.
RECURSIVE SpawnPulls(_, _, _, _)
SpawnPulls(n, remote_id, path, targets) ==
    IF targets = <<>> THEN <<>>
    ELSE <<[NewConn(n, remote_id, "pull", path, Head(targets)) EXCEPT !.owner = "daemon"]>>
         \o SpawnPulls(n, remote_id, path, Tail(targets))

\* A handler that stops scanning at the first matching config.
RespFileUpdateNotificationFirst(c) ==
    LET cn == conns[c]
        n == cn.resp
        path == Head(cn.toR).path
        targets == MatchSyncs(list_syncs(syncs[n]), cn.init, path)
        first == IF targets = <<>> THEN <<>> ELSE <<Head(targets)>>
    IN  /\ Serving(c, "FileUpdateNotification")
        /\ Len(conns) + Len(targets) <= MaxConns
        /\ conns' = [conns EXCEPT ![c] = RespRead(cn)]
                    \o SpawnPulls(n, cn.init, path, first)
        /\ UNCHANGED <<permissions, syncs, watches, running, armed, manager, files, log>>

RespFileUpdateNotification(c) ==
    LET cn == conns[c]
        n == cn.resp
        path == Head(cn.toR).path
        targets == MatchSyncs(list_syncs(syncs[n]), cn.init, path)
    IN  /\ Serving(c, "FileUpdateNotification")
        /\ Len(conns) + Len(targets) <= MaxConns
        /\ conns' = [conns EXCEPT ![c] = RespRead(cn)]
                    \o SpawnPulls(n, cn.init, path, targets)
        /\ UNCHANGED <<permissions, syncs, watches, running, armed, manager, files, log>>

----------------------------------------------------------------------------
(* A peer of another implementation, as initiator.                         *)

PeerConnect(k, n) ==
    /\ Len(conns) < MaxConns
    /\ Cardinality({c \in ConnIds : conns[c].kind = "peer"}) < MaxPeers
    /\ conns' = Append(conns, NewConn(k, n, "peer", NoPath, NoPath))
    /\ UNCHANGED <<permissions, syncs, watches, running, armed, manager, files, log>>

PeerSend(c, f) ==
    LET cn == conns[c]
    IN  /\ cn.kind = "peer"
        /\ ~cn.iclosed
        /\ cn.isent < MaxFrames
        /\ Len(cn.toR) < MaxInFlight
        /\ conns' = [conns EXCEPT ![c].toR = Append(@, f), ![c].isent = @ + 1]
        /\ UNCHANGED <<permissions, syncs, watches, running, armed, manager, files, log>>

\* The peer reads what the responder has sent.
PeerRecv(c) ==
    LET cn == conns[c]
    IN  /\ cn.kind = "peer"
        /\ cn.toI # <<>>
        /\ conns' = [conns EXCEPT ![c].toI = Tail(@),
                                  ![c].iread = TRUE,
                                  ![c].ifirst = IF cn.iread THEN @ ELSE Head(cn.toI)]
        /\ UNCHANGED <<permissions, syncs, watches, running, armed, manager, files, log>>

\* The peer closes the connection.
PeerClose(c) ==
    LET cn == conns[c]
    IN  /\ cn.kind = "peer"
        /\ ~cn.iclosed
        /\ conns' = [conns EXCEPT ![c].iclosed = TRUE]
        /\ UNCHANGED <<permissions, syncs, watches, running, armed, manager, files, log>>

----------------------------------------------------------------------------
(* The initiator tasks of the program: copy::run (cli/copy.rs), the        *)
(* register_reverse_sync of sync::run (cli/sync.rs) and notify_peer        *)
(* (sync_manager.rs).  A task is the initiator side of its session.        *)

\* The responder's end of the connection is gone: its handle_connection has
\* returned and dropped the connection, or the peer has hung up.
ResponderGone(cn) == cn.rgone \/ cn.rpc \in {"failed", "closed"}

\* The task returns an error (`?` or bail!): its connection is dropped.
Bail(cn) == [cn EXCEPT !.ipc = "failed", !.iclosed = TRUE]

\* write_message on the initiator's SendStream; pc is where the task goes on.
\* What a peer of another implementation does with the frame is its own
\* business: the frame is counted and not queued.  sent keeps what the task
\* wrote.
InitWrite(cn, f, pc) ==
    IF ResponderGone(cn) THEN Bail(cn)
    ELSE [cn EXCEPT !.toR = IF cn.resp \in Nodes THEN Append(@, f) ELSE @,
                    !.isent = @ + 1,
                    !.sent = Append(@, f),
                    !.ipc = pc]

\* read_message on the initiator's RecvStream took the head of the queue.
InitRead(cn) ==
    [cn EXCEPT !.toI = Tail(@),
               !.iread = TRUE,
               !.ifirst = IF cn.iread THEN @ ELSE Head(cn.toI)]

\* Task c of this kind is at pc.
At(c, kind, pc) ==
    /\ conns[c].init \in Nodes
    /\ conns[c].kind = kind
    /\ conns[c].ipc = pc

\* Task c awaits read_message at pc, and the read completes: with a frame, or
\* with an error when the responder is gone.
Reads(c, kind, pc) ==
    /\ At(c, kind, pc)
    /\ conns[c].toI # <<>> \/ ResponderGone(conns[c])

\* endpoint.connect and open_bi: they succeed when the peer listens.
Connect(c) ==
    LET cn == conns[c]
    IN  /\ cn.init \in Nodes
        /\ cn.ipc = "start"
        /\ conns' = [conns EXCEPT ![c] =
                        IF cn.resp \in Foreign \/ running[cn.resp]
                        THEN [cn EXCEPT !.ipc = "connected"]
                        ELSE Bail(cn)]
        /\ UNCHANGED <<permissions, syncs, watches, running, armed, manager, files, log>>

\* The process of a command is terminated (Ctrl-C, kill) while its task runs.
Kill(c) ==
    LET cn == conns[c]
    IN  /\ cn.init \in Nodes
        /\ cn.kind # "peer"
        /\ cn.owner = "cli"
        /\ cn.ipc \notin {"done", "failed", "cancelled"}
        /\ conns' = [conns EXCEPT ![c].ipc = "cancelled", ![c].iclosed = TRUE]
        /\ UNCHANGED <<permissions, syncs, watches, running, armed, manager, files, log>>

\* `syncr copy peer remote_path local_path`.
copy_run(n, peer, remote_path, local_path) ==
    /\ Len(conns) < MaxConns
    /\ conns' = Append(conns, NewConn(n, peer, "pull", remote_path, local_path))
    /\ UNCHANGED <<permissions, syncs, watches, running, armed, manager, files, log>>

\* copy::run, 1. Handshake: the task writes its Handshake ...
CopySendHandshake(c) ==
    /\ At(c, "pull", "connected")
    /\ conns' = [conns EXCEPT ![c] = InitWrite(@, Handshake(1), "hs_sent")]
    /\ UNCHANGED <<permissions, syncs, watches, running, armed, manager, files, log>>

\* ... and then reads the responder's.
CopyReadHandshake(c) ==
    LET cn == conns[c]
    IN  /\ Reads(c, "pull", "hs_sent")
        /\ conns' = [conns EXCEPT ![c] =
                        IF cn.toI # <<>> /\ Head(cn.toI).type = "Handshake"
                        THEN [InitRead(cn) EXCEPT !.ipc = "hs_done"]
                        ELSE Bail(cn)]
        /\ UNCHANGED <<permissions, syncs, watches, running, armed, manager, files, log>>

CopySendList(c) ==
    /\ At(c, "pull", "hs_done")
    /\ conns' = [conns EXCEPT ![c] = InitWrite(@, ListRequest(@.remote_path), "list_sent")]
    /\ UNCHANGED <<permissions, syncs, watches, running, armed, manager, files, log>>

\* copy::run returns Ok(()): the connection is dropped; sync::run goes on.
Return(cn) == [cn EXCEPT !.ipc = IF cn.sync THEN "copied" ELSE "done", !.iclosed = TRUE]

CopyReadList(c) ==
    LET cn == conns[c]
        msg == Head(cn.toI)
    IN  /\ Reads(c, "pull", "list_sent")
        /\ conns' = [conns EXCEPT ![c] =
                        IF cn.toI # <<>> /\ msg.type = "ListResponse"
                        THEN (IF ~exists(cn.init, cn.local_path) /\ msg.files = <<>>
                              THEN Return(InitRead(cn))
                              ELSE [InitRead(cn) EXCEPT !.todo = msg.files, !.ipc = "files"])
                        ELSE Bail(cn)]
        /\ UNCHANGED <<permissions, syncs, watches, running, armed, manager, files, log>>

\* One turn of `for file in files`, up to the first await of sync_file: a
\* directory is created; for a file the task sends the signature of what it
\* has at the target, or asks for the whole file when it has nothing there.
CopyNext(c) ==
    LET cn == conns[c]
        n == cn.init
        file == Head(cn.todo)
        relative == IF IsPrefixPath(cn.remote_path, file.path)
                    THEN strip_prefix(file.path, cn.remote_path) ELSE <<>>
        target == IF relative = <<>> THEN cn.local_path ELSE join(cn.local_path, relative)
        parent == SubSeq(target, 1, Len(target) - 1)
        local_data == files[n][Follow(target)].data
    IN  /\ At(c, "pull", "files")
        /\ IF cn.todo = <<>>
           THEN /\ conns' = [conns EXCEPT ![c] = Return(cn)]
                /\ UNCHANGED <<files, manager>>
           ELSE IF file.is_dir
           THEN IF CanMkdir(n, target)
                THEN /\ files' = [files EXCEPT ![n] = create_dir_all(@, target)]
                     /\ manager' = IF files' = files THEN manager
                                   ELSE Changed(manager, n, Follow(target))
                     /\ conns' = [conns EXCEPT ![c].todo = Tail(@)]
                ELSE /\ conns' = [conns EXCEPT ![c] = Bail(cn)]
                     /\ UNCHANGED <<files, manager>>
           ELSE IF relative # <<>> /\ ~CanMkdir(n, parent)
           THEN /\ conns' = [conns EXCEPT ![c] = Bail(cn)]
                /\ UNCHANGED <<files, manager>>
           ELSE /\ files' = IF relative # <<>>
                            THEN [files EXCEPT ![n] = create_dir_all(@, parent)]
                            ELSE files
                /\ manager' = IF files' = files THEN manager
                              ELSE Changed(manager, n, Follow(parent))
                /\ conns' = [conns EXCEPT ![c] =
                     IF ReadFails(n, target) THEN Bail(cn)
                     ELSE IF exists(n, target) /\ is_file(n, target)
                     THEN InitWrite([cn EXCEPT !.target = target,
                                               !.had_local = TRUE,
                                               !.local_data = local_data],
                                    FileSignature(file.path, calculate_signature(local_data)),
                                    "sig_sent")
                     ELSE InitWrite([cn EXCEPT !.target = target, !.had_local = FALSE],
                                    FileRequest(file.path), "req_sent")]
        /\ UNCHANGED <<permissions, syncs, watches, running, armed, log>>

\* sync_file, delta transfer: the reply to the FileSignature.
CopyReadDelta(c) ==
    LET cn == conns[c]
        msg == Head(cn.toI)
        new_data == apply_delta(cn.local_data, msg.delta)
    IN  /\ Reads(c, "pull", "sig_sent")
        /\ conns' = [conns EXCEPT ![c] =
                        IF cn.toI # <<>> /\ msg.type = "FileDelta" /\ new_data.ok
                        THEN [InitRead(cn) EXCEPT !.new_data = new_data.data, !.ipc = "write"]
                        ELSE Bail(cn)]
        /\ UNCHANGED <<permissions, syncs, watches, running, armed, manager, files, log>>

\* sync_file, full download: the reply to the FileRequest.
CopyReadData(c) ==
    LET cn == conns[c]
        msg == Head(cn.toI)
    IN  /\ Reads(c, "pull", "req_sent")
        /\ conns' = [conns EXCEPT ![c] =
                        IF cn.toI # <<>> /\ msg.type = "FileData"
                        THEN [InitRead(cn) EXCEPT !.new_data = msg.data, !.ipc = "write"]
                        ELSE Bail(cn)]
        /\ UNCHANGED <<permissions, syncs, watches, running, armed, manager, files, log>>

\* tokio::fs::write(target, new_data) opens the target with create and
\* truncate ...
WriteCreate(c) ==
    LET cn == conns[c]
        n == cn.init
    IN  /\ At(c, "pull", "write")
        /\ IF Follow(cn.target) \in FilePaths /\ ~is_dir(n, cn.target)
           THEN /\ files' = [files EXCEPT ![n][Follow(cn.target)] = File(<<>>)]
                /\ manager' = Changed(manager, n, Follow(cn.target))
                /\ conns' = [conns EXCEPT ![c].ipc = "writing"]
           ELSE /\ conns' = [conns EXCEPT ![c] = Bail(cn)]
                /\ UNCHANGED <<files, manager>>
        /\ UNCHANGED <<permissions, syncs, watches, running, armed, log>>

\* ... and then writes the bytes; sync_file returns and the loop goes on.
WriteAll(c) ==
    LET cn == conns[c]
        n == cn.init
    IN  /\ At(c, "pull", "writing")
        /\ files' = [files EXCEPT ![n][Follow(cn.target)] = File(cn.new_data)]
        /\ manager' = Changed(manager, n, Follow(cn.target))
        /\ conns' = [conns EXCEPT ![c].todo = Tail(@), ![c].ipc = "files"]
        /\ UNCHANGED <<permissions, syncs, watches, running, armed, log>>

\* `syncr sync peer remote_path local_path`: sync::run starts with copy::run.
sync_run(n, peer, remote_path, local_path) ==
    /\ Len(conns) < MaxConns
    /\ conns' = Append(conns, [NewConn(n, peer, "pull", remote_path, local_path)
                                  EXCEPT !.sync = TRUE])
    /\ UNCHANGED <<permissions, syncs, watches, running, armed, manager, files, log>>

\* sync::run after the copy: it stores the sync and the watch and goes on to
\* register_reverse_sync, on a connection of its own.
SyncPersist(c) ==
    LET cn == conns[c]
        n == cn.init
        abs_local_path == canonicalize(n, cn.local_path)
    IN  /\ At(c, "pull", "copied")
        /\ Len(conns) < MaxConns
        /\ IF abs_local_path = NoPath
           THEN /\ conns' = [conns EXCEPT ![c].ipc = "failed"]
                /\ UNCHANGED <<syncs, watches>>
           ELSE /\ syncs' = [syncs EXCEPT ![n] =
                                add_sync(@, cn.resp, cn.remote_path, abs_local_path)]
                /\ watches' = [watches EXCEPT ![n] = add_watch(@, abs_local_path)]
                /\ conns' = Append([conns EXCEPT ![c].ipc = "done"],
                                   NewConn(n, cn.resp, "register", cn.remote_path, abs_local_path))
        /\ UNCHANGED <<permissions, running, armed, manager, files, log>>

\* notify_peer and register_reverse_sync read the responder's Handshake ...
AwaitHandshake(c, kind) ==
    LET cn == conns[c]
    IN  /\ Reads(c, kind, "connected")
        /\ conns' = [conns EXCEPT ![c] =
                        IF cn.toI # <<>> /\ Head(cn.toI).type = "Handshake"
                        THEN [InitRead(cn) EXCEPT !.ipc = "hs_read"]
                        ELSE Bail(cn)]
        /\ UNCHANGED <<permissions, syncs, watches, running, armed, manager, files, log>>

\* ... write their own ...
ReplyHandshake(c, kind) ==
    /\ At(c, kind, "hs_read")
    /\ conns' = [conns EXCEPT ![c] = InitWrite(@, Handshake(1), "hs_sent")]
    /\ UNCHANGED <<permissions, syncs, watches, running, armed, manager, files, log>>

\* ... send their one frame, finish the stream and return: the connection is
\* dropped.
SendAndFinish(c, kind, f) ==
    LET w == InitWrite(conns[c], f, "done")
    IN  /\ At(c, kind, "hs_sent")
        /\ conns' = [conns EXCEPT ![c] = [w EXCEPT !.iclosed = TRUE]]
        /\ UNCHANGED <<permissions, syncs, watches, running, armed, manager, files, log>>

RegisterReadHandshake(c) == AwaitHandshake(c, "register")
RegisterSendHandshake(c) == ReplyHandshake(c, "register")
RegisterSendStartSync(c) == SendAndFinish(c, "register", StartSync(conns[c].remote_path))

\* The watcher event loop takes the next path from the channel;
\* handle_local_change lists whom to notify of it: for every sync root the
\* path is at or under, every config of the root.
RECURSIVE ConfigTargets(_, _)
ConfigTargets(configs, relative_path) ==
    IF configs = <<>> THEN <<>>
    ELSE <<<<Head(configs).peer, Head(configs).remote_path \o relative_path>>>>
         \o ConfigTargets(Tail(configs), relative_path)

RECURSIVE handle_local_change(_, _)
handle_local_change(list, path) ==
    IF list = <<>> THEN <<>>
    ELSE LET local_root == Head(list)[1]
             configs == Head(list)[2]
         IN  (IF IsPrefixPath(local_root, path)
              THEN ConfigTargets(configs, strip_prefix(path, local_root))
              ELSE <<>>)
             \o handle_local_change(Tail(list), path)

\* What the channel holds for an error of the watcher: Err(e), no path.
WatchError == <<"error">>

\* The loop logs an Err(e) of the watcher and takes the next event.
NextEvent(n) ==
    LET mg == manager[n]
    IN  /\ running[n]
        /\ mg.events # <<>>
        /\ mg.todo = <<>>
        /\ mg.cur = 0
        /\ manager' = [manager EXCEPT ![n].events = Tail(@),
                          ![n].todo = IF Head(mg.events) = WatchError THEN <<>>
                                      ELSE handle_local_change(list_syncs(syncs[n]),
                                                               Head(mg.events))]
        /\ UNCHANGED <<permissions, syncs, watches, running, armed, files, conns, log>>

\* handle_local_change calls notify_peer(endpoint, peer, remote_path) ...
notify_peer(n) ==
    LET mg == manager[n]
    IN  /\ running[n]
        /\ mg.todo # <<>>
        /\ mg.cur = 0
        /\ Len(conns) < MaxConns
        /\ conns' = Append(conns, [NewConn(n, Head(mg.todo)[1], "notify", Head(mg.todo)[2], NoPath)
                                      EXCEPT !.owner = "daemon"])
        /\ manager' = [manager EXCEPT ![n].todo = Tail(@), ![n].cur = Len(conns) + 1]
        /\ UNCHANGED <<permissions, syncs, watches, running, armed, files, log>>

\* A handle_local_change that returns the error of notify_peer: the configs
\* that remain are not notified.
NotifyReturnsOrGivesUp(n) ==
    LET mg == manager[n]
    IN  /\ mg.cur # 0
        /\ conns[mg.cur].ipc \in {"done", "failed"}
        /\ manager' = [manager EXCEPT ![n].cur = 0,
                          ![n].todo = IF conns[mg.cur].ipc = "failed" THEN <<>> ELSE @]
        /\ UNCHANGED <<permissions, syncs, watches, running, armed, files, conns, log>>

\* ... and awaits it: an error is logged, the next notification follows.
NotifyReturns(n) ==
    LET mg == manager[n]
    IN  /\ mg.cur # 0
        /\ conns[mg.cur].ipc \in {"done", "failed"}
        /\ manager' = [manager EXCEPT ![n].cur = 0]
        /\ UNCHANGED <<permissions, syncs, watches, running, armed, files, conns, log>>

NotifyReadHandshake(c) == AwaitHandshake(c, "notify")
NotifySendHandshake(c) == ReplyHandshake(c, "notify")
NotifySendNotification(c) ==
    SendAndFinish(c, "notify", FileUpdateNotification(conns[c].remote_path))

----------------------------------------------------------------------------
(* Other processes of a node.                                              *)

\* A process writes the file p of node n.
LocalChange(n, p, d) ==
    /\ Len(manager[n].changed) < MaxChanges
    /\ files' = [files EXCEPT ![n][p] = File(d)]
    /\ manager' = Changed([manager EXCEPT ![n].changed = Append(@, p)], n, p)
    /\ UNCHANGED <<permissions, syncs, watches, running, armed, conns, log>>

----------------------------------------------------------------------------
(* A peer of another implementation, as responder.                         *)

\* The task of session c awaits read_message.
AwaitsRead(cn) ==
    \/ cn.kind = "pull" /\ cn.ipc \in {"hs_sent", "list_sent", "sig_sent", "req_sent"}
    \/ cn.kind \in {"notify", "register"} /\ cn.ipc = "connected"

\* It sends a frame of its choice to the task that connected to it.  The task
\* reads the frames in order, one when it wants one: a frame sent earlier
\* than that makes no difference to it, so the peer sends when the task
\* waits.
PeerReply(c, f) ==
    LET cn == conns[c]
    IN  /\ cn.resp \in Foreign
        /\ ~cn.rgone
        /\ AwaitsRead(cn)
        /\ cn.toI = <<>>
        /\ conns' = [conns EXCEPT ![c].toI = Append(@, f)]
        /\ UNCHANGED <<permissions, syncs, watches, running, armed, manager, files, log>>

\* It closes the connection.
PeerHangup(c) ==
    LET cn == conns[c]
    IN  /\ cn.resp \in Foreign
        /\ cn.ipc # "start"
        /\ ~cn.iclosed
        /\ ~cn.rgone
        /\ conns' = [conns EXCEPT ![c].rgone = TRUE]
        /\ UNCHANGED <<permissions, syncs, watches, running, armed, manager, files, log>>

----------------------------------------------------------------------------
(* The daemon of node B, its operator, and peers of other implementations  *)
(* that connect to it.                                                     *)

Server == "B"
Clients == {"A", "K"}

NoFiles == [p \in FilePaths |-> Absent]

Init ==
    /\ permissions = [n \in Nodes |-> [p \in AllPaths |-> <<>>]]
    /\ syncs = [n \in Nodes |-> [p \in AllPaths |-> <<>>]]
    /\ watches = [n \in Nodes |-> {}]
    /\ running = [n \in Nodes |-> FALSE]
    /\ armed = [n \in Nodes |-> {}]
    /\ manager = [n \in Nodes |-> Idle]
    /\ files = [n \in Nodes |-> IF n = Server
                                THEN [p \in FilePaths |-> File(<<1>>)]
                                ELSE NoFiles]
    /\ conns = <<>>
    /\ log = <<>>

\* What the operator of the daemon types: A is the peer that gets access,
\* through the symbolic link and on the directory.
AllowArgs == {<<"A", LINK>>, <<"A", DATA>>}
WatchArgs == {FILE_B}

\* What the peers send to the daemon.
PeerFrames ==
    {Handshake(1), ListRequest(DATA), FileRequest(FILE_A),
     FileSignature(FILE_A, calculate_signature(<<1>>)),
     FileUpdateNotification(FILE_A), Undecodable}
    \cup {StartSync(p) : p \in AllPaths}

Next ==
    \/ \E a \in AllowArgs : run_allow(Server, a[1], a[2])
    \/ \E a \in AllowArgs : run_disallow(Server, a[1], a[2])
    \/ \E p \in WatchArgs, d \in BOOLEAN : ~running[Server] /\ watch_run(Server, p, d)
    \/ serve_run(Server)
    \/ \E k \in Clients : PeerConnect(k, Server)
    \/ \E c \in ConnIds, f \in PeerFrames : PeerSend(c, f)
    \/ \E c \in ConnIds : PeerRecv(c)
    \/ \E c \in ConnIds : PeerClose(c)
    \/ \E c \in ConnIds : RespSendHandshake(c)
    \/ \E c \in ConnIds : RespReadHandshake(c)
    \/ \E c \in ConnIds : RespReadError(c)
    \/ \E c \in ConnIds : RespFileRequest(c)
    \/ \E c \in ConnIds : RespFileSignature(c)
    \/ \E c \in ConnIds : RespFileUpdateNotification(c)
    \/ \E c \in ConnIds : RespStartSync(c)
    \/ \E c \in ConnIds : RespOther(c)

Spec == Init /\ [][Next]_vars

----------------------------------------------------------------------------
(* The tasks of node A, the daemon of node B, and a peer of another        *)
(* implementation on either side of a session.                             *)

\* A holds an older a.txt; B holds the files of Init, its operator has
\* allowed K and A on /data/a.txt and started the daemon.
TaskInit ==
    /\ permissions = [n \in Nodes |->
                        [p \in AllPaths |-> IF n = Server /\ p = FILE_A THEN <<"K", "A">> ELSE <<>>]]
    /\ syncs = [n \in Nodes |-> [p \in AllPaths |-> <<>>]]
    /\ watches = [n \in Nodes |-> {}]
    /\ running = [n \in Nodes |-> n = Server]
    /\ armed = [n \in Nodes |-> {}]
    /\ manager = [n \in Nodes |-> Idle]
    /\ files = [n \in Nodes |-> IF n = Server
                                THEN [p \in FilePaths |-> File(<<1>>)]
                                ELSE [NoFiles EXCEPT ![FILE_A] = File(<<1, 2>>)]]
    /\ conns = <<>>
    /\ log = <<>>

\* The command lines typed on A: <<peer, remote_path, local_path>>.
CopyArgs == {<<"B", FILE_A, FILE_A>>, <<"K", FILE_A, FILE_A>>, <<"K", DATA, DATA>>}
SyncArgs == {<<"K", FILE_A, FILE_B>>, <<"B", FILE_A, FILE_A>>}
\* What other processes write: <<node, file, content>>.
ChangeArgs == {<<"A", FILE_B, <<1, 2>>>>, <<"B", FILE_A, <<2>>>>}

\* What the peer sends as responder.
ReplyFrames ==
    {Handshake(1),
     ListResponse(<<>>),
     ListResponse(<<FileMetadata(FILE_A, FALSE)>>),
     ListResponse(<<FileMetadata(DATA, TRUE), FileMetadata(FILE_A, FALSE)>>),
     FileData(FILE_A, <<2>>),
     FileDelta(FILE_A, calculate_delta(calculate_signature(<<1, 2>>), <<1, 2, 1>>)),
     FileDelta(FILE_A, [ok |-> TRUE, ops |-> <<Copy(1, 1)>>]),
     Error(FileNotFound, FILE_A)}

\* What the peer sends as initiator.
TaskPeerFrames ==
    {Handshake(1), StartSync(FILE_A), FileUpdateNotification(FILE_A),
     FileRequest(FILE_A), FileSignature(FILE_A, calculate_signature(<<1, 2>>))}

TaskStep(c) ==
    \/ Connect(c)
    \/ CopySendHandshake(c)
    \/ CopyReadHandshake(c)
    \/ CopySendList(c)
    \/ CopyReadList(c)
    \/ CopyNext(c)
    \/ CopyReadDelta(c)
    \/ CopyReadData(c)
    \/ WriteCreate(c)
    \/ WriteAll(c)
    \/ SyncPersist(c)
    \/ RegisterReadHandshake(c)
    \/ RegisterSendHandshake(c)
    \/ RegisterSendStartSync(c)
    \/ NotifyReadHandshake(c)
    \/ NotifySendHandshake(c)
    \/ NotifySendNotification(c)

RespStep(c) ==
    \/ RespSendHandshake(c)
    \/ RespReadHandshake(c)
    \/ RespReadError(c)
    \/ RespFileRequest(c)
    \/ RespFileSignature(c)
    \/ RespFileUpdateNotification(c)
    \/ RespStartSync(c)
    \/ RespOther(c)

\* The operator of A and the peer have started fewer than MaxCommands
\* sessions; the sessions the program starts by itself come on top.
Quiet == Len(conns) < MaxCommands

TaskEnv ==
    \/ \E a \in CopyArgs : Quiet /\ copy_run("A", a[1], a[2], a[3])
    \/ \E a \in SyncArgs : Quiet /\ sync_run("A", a[1], a[2], a[3])
    \/ serve_run("A")
    \/ \E a \in ChangeArgs : LocalChange(a[1], a[2], a[3])
    \/ Quiet /\ PeerConnect("K", Server)
    \/ \E c \in ConnIds, f \in TaskPeerFrames : PeerSend(c, f)
    \/ \E c \in ConnIds : PeerRecv(c)
    \/ \E c \in ConnIds : PeerClose(c)
    \/ \E c \in ConnIds, f \in ReplyFrames : PeerReply(c, f)
    \/ \E c \in ConnIds : PeerHangup(c)

\* The steps of the program and of its environment, no process killed.
TaskRun ==
    \/ TaskEnv
    \/ \E n \in Nodes : Callback(n)
    \/ \E n \in Nodes : NextEvent(n)
    \/ \E n \in Nodes : notify_peer(n)
    \/ \E n \in Nodes : NotifyReturns(n)
    \/ \E c \in ConnIds : Connect(c)
    \/ \E c \in ConnIds : CopySendHandshake(c)
    \/ \E c \in ConnIds : CopyReadHandshake(c)
    \/ \E c \in ConnIds : CopySendList(c)
    \/ \E c \in ConnIds : CopyReadList(c)
    \/ \E c \in ConnIds : CopyNext(c)
    \/ \E c \in ConnIds : CopyReadDelta(c)
    \/ \E c \in ConnIds : CopyReadData(c)
    \/ \E c \in ConnIds : WriteCreate(c)
    \/ \E c \in ConnIds : WriteAll(c)
    \/ \E c \in ConnIds : SyncPersist(c)
    \/ \E c \in ConnIds : RegisterReadHandshake(c)
    \/ \E c \in ConnIds : RegisterSendHandshake(c)
    \/ \E c \in ConnIds : RegisterSendStartSync(c)
    \/ \E c \in ConnIds : NotifyReadHandshake(c)
    \/ \E c \in ConnIds : NotifySendHandshake(c)
    \/ \E c \in ConnIds : NotifySendNotification(c)
    \/ \E c \in ConnIds : RespSendHandshake(c)
    \/ \E c \in ConnIds : RespReadHandshake(c)
    \/ \E c \in ConnIds : RespReadError(c)
    \/ \E c \in ConnIds : RespFileRequest(c)
    \/ \E c \in ConnIds : RespFileSignature(c)
    \/ \E c \in ConnIds : RespFileUpdateNotification(c)
    \/ \E c \in ConnIds : RespStartSync(c)
    \/ \E c \in ConnIds : RespOther(c)

TaskNext ==
    \/ TaskRun
    \/ \E c \in ConnIds : Kill(c)

TaskSpec == TaskInit /\ [][TaskNext]_vars

\* The tokio runtime polls every task that can go on: each task, each
\* responder session and each event loop takes its next step when it has
\* one.  Nothing is assumed of the operators, the peer and other processes.
TaskFairness ==
    /\ \A c \in 1..MaxConns : WF_vars(c \in ConnIds /\ TaskStep(c))
    /\ \A c \in 1..MaxConns : WF_vars(c \in ConnIds /\ RespStep(c))
    /\ \A n \in Nodes : WF_vars(Callback(n))
    /\ \A n \in Nodes : WF_vars(NextEvent(n) \/ notify_peer(n) \/ NotifyReturns(n))

TaskFairSpec == TaskInit /\ [][TaskRun]_vars /\ TaskFairness

----------------------------------------------------------------------------
(* The watcher of a daemon under a burst of file system events.            *)

\* The OS reports an event for path p of node n (a file touched).
FsEvent(n, p) ==
    /\ Len(manager[n].changed) < MaxEvents
    /\ manager' = Changed([manager EXCEPT ![n].changed = Append(@, p)], n, p)
    /\ UNCHANGED <<permissions, syncs, watches, running, armed, files, conns, log>>

\* The OS reports an error to the callback, which sends Err(e).
FsError(n) ==
    /\ running[n]
    /\ Len(manager[n].changed) < MaxEvents
    /\ manager' = [manager EXCEPT ![n].changed = Append(@, WatchError),
                                  ![n].os = Append(@, WatchError)]
    /\ UNCHANGED <<permissions, syncs, watches, running, armed, files, conns, log>>

\* B's daemon was started with the watch /data stored, and with the syncs of
\* /data that A, which is not running, and K have registered.
WatcherInit ==
    /\ permissions = [n \in Nodes |->
                        [p \in AllPaths |-> IF n = Server /\ p = DATA THEN <<"K">> ELSE <<>>]]
    /\ syncs = [n \in Nodes |->
                  [p \in AllPaths |-> IF n = Server /\ p = DATA
                                      THEN <<SyncConfig("A", DATA), SyncConfig("K", DATA)>>
                                      ELSE <<>>]]
    /\ watches = [n \in Nodes |-> IF n = Server THEN {DATA} ELSE {}]
    /\ running = [n \in Nodes |-> n = Server]
    /\ armed = [n \in Nodes |-> IF n = Server THEN {DATA} ELSE {}]
    /\ manager = [n \in Nodes |-> Idle]
    /\ files = [n \in Nodes |-> IF n = Server
                                THEN [p \in FilePaths |-> File(<<1>>)]
                                ELSE NoFiles]
    /\ conns = <<>>
    /\ log = <<>>

\* What the notified peer sends.
WatcherReplyFrames == {Handshake(1), Error(FileNotFound, NoPath)}

WatcherNext ==
    \/ \E p \in FilePaths : FsEvent(Server, p)
    \/ FsError(Server)
    \/ Callback(Server)
    \/ NextEvent(Server)
    \/ notify_peer(Server)
    \/ NotifyReturns(Server)
    \/ \E c \in ConnIds : Connect(c)
    \/ \E c \in ConnIds : NotifyReadHandshake(c)
    \/ \E c \in ConnIds : NotifySendHandshake(c)
    \/ \E c \in ConnIds : NotifySendNotification(c)
    \/ \E c \in ConnIds, f \in WatcherReplyFrames : PeerReply(c, f)
    \/ \E c \in ConnIds : PeerHangup(c)

WatcherSpec == WatcherInit /\ [][WatcherNext]_vars

----------------------------------------------------------------------------
(* The store of a node, called one operation at a time.                    *)

Call(op, path, peer, remote_path, ret) ==
    [op |-> op, path |-> path, peer |-> peer, remote_path |-> remote_path, ret |-> ret]

CallAllowPeer(n, path, peer) ==
    /\ Len(log) < MaxOps
    /\ permissions' = [permissions EXCEPT ![n] = allow_peer(@, path, peer)]
    /\ log' = Append(log, Call("allow_peer", path, peer, NoPath, TRUE))
    /\ UNCHANGED <<syncs, watches, running, armed, manager, files, conns>>

CallDisallowPeer(n, path, peer) ==
    /\ Len(log) < MaxOps
    /\ permissions' = [permissions EXCEPT ![n] = disallow_peer(@, path, peer)]
    /\ log' = Append(log, Call("disallow_peer", path, peer, NoPath, TRUE))
    /\ UNCHANGED <<syncs, watches, running, armed, manager, files, conns>>

CallAddWatch(n, path) ==
    /\ Len(log) < MaxOps
    /\ watches' = [watches EXCEPT ![n] = add_watch(@, path)]
    /\ log' = Append(log, Call("add_watch", path, "", NoPath, TRUE))
    /\ UNCHANGED <<permissions, syncs, running, armed, manager, files, conns>>

CallRemoveWatch(n, path) ==
    /\ Len(log) < MaxOps
    /\ watches' = [watches EXCEPT ![n] = remove_watch(@, path)]
    /\ log' = Append(log, Call("remove_watch", path, "", NoPath,
                               remove_watch_returns(watches[n], path)))
    /\ UNCHANGED <<permissions, syncs, running, armed, manager, files, conns>>

CallAddSync(n, peer, remote_path, local_path) ==
    /\ Len(log) < MaxOps
    /\ syncs' = [syncs EXCEPT ![n] = add_sync(@, peer, remote_path, local_path)]
    /\ log' = Append(log, Call("add_sync", local_path, peer, remote_path, TRUE))
    /\ UNCHANGED <<permissions, watches, running, armed, manager, files, conns>>

\* The paths and peers of the calls.
StorePaths == {DATA, FILE_A}
StorePeers == {"A", "K"}

StoreNext ==
    \/ \E p \in StorePaths, k \in StorePeers : CallAllowPeer(Server, p, k)
    \/ \E p \in StorePaths, k \in StorePeers : CallDisallowPeer(Server, p, k)
    \/ \E p \in StorePaths : CallAddWatch(Server, p)
    \/ \E p \in StorePaths : CallRemoveWatch(Server, p)
    \/ \E p \in StorePaths, k \in StorePeers : CallAddSync(Server, k, FILE_A, p)

StoreSpec == Init /\ [][StoreNext]_vars

----------------------------------------------------------------------------
(* The delta engine, called one function at a time: the signature of the   *)
(* old content, the delta of the new content against it, the delta applied *)
(* to the old content.                                                     *)

DeltaContents == UNION {[1..l -> Bytes] : l \in 0..MaxLen}

DeltaCall(op, old_data, new_data, ret) ==
    [op |-> op, old_data |-> old_data, new_data |-> new_data, ret |-> ret]

CallCalculateSignature(old) ==
    /\ log = <<>>
    /\ log' = <<DeltaCall("calculate_signature", old, <<>>, calculate_signature(old))>>
    /\ UNCHANGED <<permissions, syncs, watches, running, armed, manager, files, conns>>

CallCalculateDelta(new) ==
    /\ Len(log) = 1
    /\ log[1].op = "calculate_signature"
    /\ log' = Append(log, DeltaCall("calculate_delta", log[1].old_data, new,
                                    calculate_delta(log[1].ret, new)))
    /\ UNCHANGED <<permissions, syncs, watches, running, armed, manager, files, conns>>

CallApplyDelta ==
    /\ Len(log) = 2
    /\ log[2].op = "calculate_delta"
    /\ log' = Append(log, DeltaCall("apply_delta", log[2].old_data, log[2].new_data,
                                    apply_delta(log[2].old_data, log[2].ret)))
    /\ UNCHANGED <<permissions, syncs, watches, running, armed, manager, files, conns>>

DeltaNext ==
    \/ \E old \in DeltaContents : CallCalculateSignature(old)
    \/ \E new \in DeltaContents : CallCalculateDelta(new)
    \/ CallApplyDelta

DeltaSpec == Init /\ [][DeltaNext]_vars

----------------------------------------------------------------------------
(* The mapping of a FileUpdateNotification to its pull target, on the      *)
(* strings themselves: a string is a sequence of characters, "/" the       *)
(* separator.                                                              *)

Sep == "/"
Chars == {Sep, "r", "x"}
Strings == UNION {[1..l -> Chars] : l \in 0..MaxStr}

\* str::starts_with.
string_starts_with(s, t) == Len(t) <= Len(s) /\ SubSeq(s, 1, Len(t)) = t

\* The names between the separators; empty names (a doubled or trailing
\* separator) are no components.
RECURSIVE Names(_, _)
Names(s, name) ==
    LET done == IF name = <<>> THEN <<>> ELSE <<name>>
    IN  IF s = <<>> THEN done
        ELSE IF Head(s) = Sep THEN done \o Names(Tail(s), <<>>)
        ELSE Names(Tail(s), Append(name, Head(s)))

\* Path::components: the root, when the string starts with the separator,
\* then the names.
components(s) ==
    (IF s # <<>> /\ Head(s) = Sep THEN <<<<Sep>>>> ELSE <<>>) \o Names(s, <<>>)

\* Path::strip_prefix, by components.
path_strip_prefix(s, base) ==
    IF IsPrefixPath(components(base), components(s))
    THEN [ok |-> TRUE, relative |-> strip_prefix(components(s), components(base))]
    ELSE [ok |-> FALSE, relative |-> <<>>]

\* PathBuf::join on components.
path_join(base, relative) ==
    IF relative # <<>> /\ Head(relative) = <<Sep>> THEN relative ELSE base \o relative

NoPull == [pull |-> FALSE, target |-> <<>>]
Pull(target) == [pull |-> TRUE, target |-> target]

\* What the arm does for one config of local_root: the copy::run it spawns.
pull_target(path, config, local_root, remote_id) ==
    IF config.peer # remote_id THEN NoPull
    ELSE IF path = config.remote_path THEN Pull(components(local_root))
    ELSE IF string_starts_with(path, config.remote_path)
         THEN LET stripped == path_strip_prefix(path, config.remote_path)
              IN  IF stripped.ok
                  THEN Pull(path_join(components(local_root), stripped.relative))
                  ELSE NoPull
    ELSE NoPull

LOCAL_ROOT == <<Sep, "l">>

\* The arm runs on a notification from peer K against one stored config.
CallNotification(path, remote_path, peer) ==
    /\ log = <<>>
    /\ log' = <<[op |-> "FileUpdateNotification", path |-> path,
                 config |-> SyncConfig(peer, remote_path),
                 local_root |-> LOCAL_ROOT, remote_id |-> "K",
                 ret |-> pull_target(path, SyncConfig(peer, remote_path), LOCAL_ROOT, "K")]>>
    /\ UNCHANGED <<permissions, syncs, watches, running, armed, manager, files, conns>>

MapNext ==
    \E path \in Strings, remote_path \in Strings, peer \in {"A", "K"} :
        CallNotification(path, remote_path, peer)

MapSpec == Init /\ [][MapNext]_vars

----------------------------------------------------------------------------
(* The pull of one file from a peer that serves it as the protocol says:   *)
(* it answers the Handshake, lists the one file, and answers the request   *)
(* for the file from the content it holds.                                 *)

Served(path, content) == [op |-> "served", path |-> path, content |-> content]

PullInit ==
    /\ permissions = [n \in Nodes |-> [p \in AllPaths |-> <<>>]]
    /\ syncs = [n \in Nodes |-> [p \in AllPaths |-> <<>>]]
    /\ watches = [n \in Nodes |-> {}]
    /\ running = [n \in Nodes |-> FALSE]
    /\ armed = [n \in Nodes |-> {}]
    /\ manager = [n \in Nodes |-> Idle]
    /\ \E local \in {Absent} \cup {File(d) : d \in DeltaContents} :
          files = [n \in Nodes |-> IF n = "A" THEN [NoFiles EXCEPT ![FILE_A] = local]
                                   ELSE NoFiles]
    /\ conns = <<>>
    /\ log = <<>>

PeerServes(c, content) ==
    LET cn == conns[c]
        reply == CASE cn.ipc = "hs_sent" -> Handshake(1)
                   [] cn.ipc = "list_sent" ->
                        ListResponse(<<FileMetadata(cn.remote_path, FALSE)>>)
                   [] cn.ipc = "sig_sent" ->
                        FileDelta(cn.remote_path,
                                  calculate_delta(cn.sent[Len(cn.sent)].signature, content))
                   [] OTHER -> FileData(cn.remote_path, content)
    IN  /\ cn.resp \in Foreign
        /\ cn.kind = "pull"
        /\ AwaitsRead(cn)
        /\ cn.toI = <<>>
        /\ conns' = [conns EXCEPT ![c].toI = Append(@, reply)]
        /\ log' = IF cn.ipc \in {"sig_sent", "req_sent"}
                  THEN Append(log, Served(cn.remote_path, content))
                  ELSE log
        /\ UNCHANGED <<permissions, syncs, watches, running, armed, manager, files>>

PullNext ==
    \/ Quiet /\ copy_run("A", "K", FILE_A, FILE_A)
    \/ \E c \in ConnIds : Connect(c)
    \/ \E c \in ConnIds : CopySendHandshake(c)
    \/ \E c \in ConnIds : CopyReadHandshake(c)
    \/ \E c \in ConnIds : CopySendList(c)
    \/ \E c \in ConnIds : CopyReadList(c)
    \/ \E c \in ConnIds : CopyNext(c)
    \/ \E c \in ConnIds : CopyReadDelta(c)
    \/ \E c \in ConnIds : CopyReadData(c)
    \/ \E c \in ConnIds : WriteCreate(c)
    \/ \E c \in ConnIds : WriteAll(c)
    \/ \E c \in ConnIds, content \in DeltaContents : PeerServes(c, content)

PullSpec == PullInit /\ [][PullNext]_vars

----------------------------------------------------------------------------
(* The requests for a file, served by the daemon to a peer.  The daemon    *)
(* holds a file it can read and one it cannot.                             *)

ServeInit ==
    /\ permissions = [n \in Nodes |-> [p \in AllPaths |-> <<>>]]
    /\ syncs = [n \in Nodes |-> [p \in AllPaths |-> <<>>]]
    /\ watches = [n \in Nodes |-> {}]
    /\ running = [n \in Nodes |-> n = Server]
    /\ armed = [n \in Nodes |-> {}]
    /\ manager = [n \in Nodes |-> Idle]
    /\ files = [n \in Nodes |->
                  IF n = Server
                  THEN [NoFiles EXCEPT ![FILE_A] = File(<<1, 2>>), ![FILE_B] = Unreadable(<<1>>)]
                  ELSE NoFiles]
    /\ conns = <<>>
    /\ log = <<>>

ServePaths == {FILE_A, FILE_B, DATA, REL_NOPE}

ServeFrames ==
    {Handshake(1)}
    \cup {FileRequest(p) : p \in ServePaths}
    \cup {FileSignature(p, sig) : p \in ServePaths,
                                  sig \in {calculate_signature(<<1>>), NoSignature}}

ServeNext ==
    \/ PeerConnect("K", Server)
    \/ \E c \in ConnIds, f \in ServeFrames : PeerSend(c, f)
    \/ \E c \in ConnIds : PeerRecv(c)
    \/ \E c \in ConnIds : PeerClose(c)
    \/ \E c \in ConnIds : RespSendHandshake(c)
    \/ \E c \in ConnIds : RespReadHandshake(c)
    \/ \E c \in ConnIds : RespReadError(c)
    \/ \E c \in ConnIds : RespFileRequest(c)
    \/ \E c \in ConnIds : RespFileSignature(c)
    \/ \E c \in ConnIds : RespOther(c)

ServeSpec == ServeInit /\ [][ServeNext]_vars

----------------------------------------------------------------------------
(* handle_local_change on the strings themselves: the path of the watcher  *)
(* event, the sync roots and the remote paths of their configs.            *)

\* Path::to_string_lossy of a relative path: its names with separators between.
RECURSIVE Render(_)
Render(names) ==
    IF names = <<>> THEN <<>>
    ELSE IF Len(names) = 1 THEN Head(names)
    ELSE Head(names) \o <<Sep>> \o Render(Tail(names))

ends_with(s, ch) == s # <<>> /\ s[Len(s)] = ch

target_remote_path(remote_path, relative_path) ==
    IF relative_path = <<>> THEN remote_path
    ELSE IF ends_with(remote_path, Sep) THEN remote_path \o relative_path
    ELSE remote_path \o <<Sep>> \o relative_path

RECURSIVE notify_configs(_, _)
notify_configs(configs, relative_path) ==
    IF configs = <<>> THEN <<>>
    ELSE <<<<Head(configs).peer,
             target_remote_path(Head(configs).remote_path, relative_path)>>>>
         \o notify_configs(Tail(configs), relative_path)

\* The notify_peer calls of handle_local_change(path): <<peer, path to
\* notify>> each, in order.
RECURSIVE local_change_notifies(_, _)
local_change_notifies(list, path) ==
    IF list = <<>> THEN <<>>
    ELSE LET local_root == Head(list)[1]
             configs == Head(list)[2]
             stripped == path_strip_prefix(path, local_root)
         IN  (IF stripped.ok
              THEN notify_configs(configs, Render(stripped.relative))
              ELSE <<>>)
             \o local_change_notifies(Tail(list), path)

\* Absolute paths: what the watcher reports and what the store has as roots.
AbsStrings(len) == {s \in Strings : s # <<>> /\ Len(s) <= len /\ Head(s) = Sep}

\* handle_local_change runs on a store with one root, whose config is there
\* twice, next to a config of another peer.
CallHandleLocalChange(path, local_root, remote_path) ==
    LET list == <<<<local_root, <<SyncConfig("K", remote_path),
                                  SyncConfig("A", remote_path),
                                  SyncConfig("K", remote_path)>>>>>>
    IN  /\ log = <<>>
        /\ log' = <<[op |-> "handle_local_change", path |-> path, list |-> list,
                     ret |-> local_change_notifies(list, path)]>>
        /\ UNCHANGED <<permissions, syncs, watches, running, armed, manager, files, conns>>

ChangeNext ==
    \E path \in AbsStrings(MaxStr), local_root \in AbsStrings(MaxStr - 1),
       remote_path \in {s \in Strings : Len(s) < MaxStr} :
        CallHandleLocalChange(path, local_root, remote_path)

ChangeSpec == Init /\ [][ChangeNext]_vars

----------------------------------------------------------------------------
(* A notification that matches two sync configs of the daemon: /data synced *)
(* from K's /data, and /data/b.txt synced from K's /data/a.txt.             *)

SpawnInit ==
    /\ permissions = [n \in Nodes |-> [p \in AllPaths |-> <<>>]]
    /\ syncs = [n \in Nodes |->
                  [p \in AllPaths |->
                      IF n = Server /\ p = DATA THEN <<SyncConfig("K", DATA)>>
                      ELSE IF n = Server /\ p = FILE_B THEN <<SyncConfig("K", FILE_A)>>
                      ELSE <<>>]]
    /\ watches = [n \in Nodes |-> {}]
    /\ running = [n \in Nodes |-> n = Server]
    /\ armed = [n \in Nodes |-> {}]
    /\ manager = [n \in Nodes |-> Idle]
    /\ files = [n \in Nodes |-> IF n = Server
                                THEN [NoFiles EXCEPT ![FILE_A] = File(<<1>>)]
                                ELSE NoFiles]
    /\ conns = <<>>
    /\ log = <<>>

\* What K sends on the session it opens, and what it answers the pulls with.
SpawnPeerFrames == {Handshake(1), FileUpdateNotification(FILE_A), FileRequest(FILE_A)}
SpawnReplyFrames ==
    {Handshake(1),
     ListResponse(<<FileMetadata(FILE_A, FALSE)>>),
     FileData(FILE_A, <<2>>),
     FileDelta(FILE_A, calculate_delta(calculate_signature(<<1>>), <<2>>)),
     Error(FileNotFound, FILE_A)}

SpawnNext ==
    \/ (conns = <<>> /\ PeerConnect("K", Server))
    \/ \E c \in ConnIds, f \in SpawnPeerFrames : PeerSend(c, f)
    \/ \E c \in ConnIds : PeerRecv(c)
    \/ \E c \in ConnIds : RespSendHandshake(c)
    \/ \E c \in ConnIds : RespReadHandshake(c)
    \/ \E c \in ConnIds : RespFileUpdateNotification(c)
    \/ \E c \in ConnIds : RespFileRequest(c)
    \/ \E c \in ConnIds : RespOther(c)
    \/ \E c \in ConnIds : Connect(c)
    \/ \E c \in ConnIds : CopySendHandshake(c)
    \/ \E c \in ConnIds : CopyReadHandshake(c)
    \/ \E c \in ConnIds : CopySendList(c)
    \/ \E c \in ConnIds : CopyReadList(c)
    \/ \E c \in ConnIds : CopyNext(c)
    \/ \E c \in ConnIds : CopyReadDelta(c)
    \/ \E c \in ConnIds : CopyReadData(c)
    \/ \E c \in ConnIds : WriteCreate(c)
    \/ \E c \in ConnIds : WriteAll(c)
    \/ \E c \in ConnIds, f \in SpawnReplyFrames : PeerReply(c, f)

SpawnSpec == SpawnInit /\ [][SpawnNext]_vars

----------------------------------------------------------------------------
(* The start of the daemon and the mutex around the FileWatcher: the event *)
(* loop step by step, next to a task that locks the watcher to arm it.     *)

\* A process removes the file p of node n.
LocalRemove(n, p) ==
    /\ files[n][p].kind # "absent"
    /\ files' = [files EXCEPT ![n][p] = Absent]
    /\ manager' = Changed(manager, n, p)
    /\ UNCHANGED <<permissions, syncs, watches, running, armed, conns, log>>

\* let mut w = watcher_clone.lock().await;
LoopLock(n) ==
    LET mg == manager[n]
    IN  /\ running[n]
        /\ mg.todo = <<>>
        /\ mg.cur = 0
        /\ mg.lock = "free"
        /\ manager' = [manager EXCEPT ![n].lock = "loop"]
        /\ UNCHANGED <<permissions, syncs, watches, running, armed, files, conns, log>>

\* let event = w.next_event().await; drop(w);  The loop is suspended in
\* rx.recv() until the channel has an event, and drops the guard after it.
LoopNextEvent(n) ==
    LET mg == manager[n]
    IN  /\ mg.lock = "loop"
        /\ mg.events # <<>>
        /\ manager' = [manager EXCEPT ![n].events = Tail(@),
                          ![n].lock = "free",
                          ![n].todo = IF Head(mg.events) = WatchError THEN <<>>
                                      ELSE handle_local_change(list_syncs(syncs[n]),
                                                               Head(mg.events))]
        /\ UNCHANGED <<permissions, syncs, watches, running, armed, files, conns, log>>

\* A task of the SyncManager calls self.watcher.lock().await ...
TaskWantsLock(n) ==
    /\ running[n]
    /\ manager[n].waiter = "none"
    /\ manager' = [manager EXCEPT ![n].waiter = "waiting"]
    /\ UNCHANGED <<permissions, syncs, watches, running, armed, files, conns, log>>

\* ... gets the guard when the mutex is free ...
TaskLocks(n) ==
    /\ manager[n].waiter = "waiting"
    /\ manager[n].lock = "free"
    /\ manager' = [manager EXCEPT ![n].waiter = "holding", ![n].lock = "task"]
    /\ UNCHANGED <<permissions, syncs, watches, running, armed, files, conns, log>>

\* ... arms the stored watches that exist, and drops the guard.
TaskUnlocks(n) ==
    /\ manager[n].waiter = "holding"
    /\ manager' = [manager EXCEPT ![n].waiter = "done", ![n].lock = "free"]
    /\ armed' = [armed EXCEPT ![n] = @ \cup {p \in watches[n] : exists(n, p)}]
    /\ UNCHANGED <<permissions, syncs, watches, running, files, conns, log>>

ArmInit ==
    /\ permissions = [n \in Nodes |-> [p \in AllPaths |-> <<>>]]
    /\ syncs = [n \in Nodes |-> [p \in AllPaths |-> <<>>]]
    /\ watches = [n \in Nodes |-> {}]
    /\ running = [n \in Nodes |-> FALSE]
    /\ armed = [n \in Nodes |-> {}]
    /\ manager = [n \in Nodes |-> Idle]
    /\ files = [n \in Nodes |-> IF n = Server
                                THEN [p \in FilePaths |-> File(<<1>>)]
                                ELSE NoFiles]
    /\ conns = <<>>
    /\ log = <<>>

ArmNext ==
    \/ \E p \in FilePaths \cup DirPaths :
          ~running[Server] /\ watch_run(Server, p, FALSE)
    \/ \E p \in FilePaths : LocalRemove(Server, p)
    \/ \E p \in FilePaths : LocalChange(Server, p, <<2>>)
    \/ serve_run(Server)
    \/ Callback(Server)
    \/ LoopLock(Server)
    \/ LoopNextEvent(Server)
    \/ TaskWantsLock(Server)
    \/ TaskLocks(Server)
    \/ TaskUnlocks(Server)

ArmSpec == ArmInit /\ [][ArmNext]_vars

----------------------------------------------------------------------------
(* Two sessions of the daemon on two worker threads: store.add_sync of the *)
(* StartSync arm is a get of the list of the local path and, later, an     *)
(* insert of the list with the new config pushed.                          *)

\* The arm up to syncs.get(&local_key)?: existing is what the tree held.
AddSyncGet(c) ==
    LET cn == conns[c]
        n == cn.resp
        remote_id == cn.init
        path == Head(cn.toR).path
        key == abs_path(n, path)
        allowed_peers == get_permissions(permissions[n], key)
    IN  /\ Serving(c, "StartSync")
        /\ ~cn.got
        /\ conns' = [conns EXCEPT ![c] =
                        IF Contains(allowed_peers, remote_id)
                        THEN [cn EXCEPT !.got = TRUE, !.existing = syncs[n][key]]
                        ELSE RespWrite(RespRead(cn), Error(AccessDenied, NoPath))]
        /\ UNCHANGED <<permissions, syncs, watches, running, armed, manager, files, log>>

\* existing.push(SyncConfig { peer, remote_path }); syncs.insert(local_key,
\* ..)?; then store.add_watch, and the session reads its next frame.
AddSyncInsert(c) ==
    LET cn == conns[c]
        n == cn.resp
        remote_id == cn.init
        path == Head(cn.toR).path
        key == abs_path(n, path)
    IN  /\ Serving(c, "StartSync")
        /\ cn.got
        /\ syncs' = [syncs EXCEPT ![n][key] =
                        Append(cn.existing, SyncConfig(remote_id, path))]
        /\ watches' = [watches EXCEPT ![n] = add_watch(@, key)]
        /\ conns' = [conns EXCEPT ![c] =
                        [RespRead(cn) EXCEPT !.got = FALSE, !.existing = <<>>]]
        /\ log' = Append(log, Call("add_sync", key, remote_id, path, TRUE))
        /\ UNCHANGED <<permissions, running, armed, manager, files>>

\* A session of K that has completed its handshake.
ServingSession ==
    [NewConn("K", Server, "peer", NoPath, NoPath) EXCEPT
        !.rpc = "serving", !.isent = 1, !.rwrote = TRUE, !.rread = TRUE,
        !.rfirst = Handshake(1), !.toI = <<Handshake(1)>>]

\* The operator has allowed K on /data; K has two sessions with the daemon.
RaceInit ==
    /\ permissions = [n \in Nodes |->
                        [p \in AllPaths |-> IF n = Server /\ p = DATA THEN <<"K">> ELSE <<>>]]
    /\ syncs = [n \in Nodes |-> [p \in AllPaths |-> <<>>]]
    /\ watches = [n \in Nodes |-> {}]
    /\ running = [n \in Nodes |-> n = Server]
    /\ armed = [n \in Nodes |-> {}]
    /\ manager = [n \in Nodes |-> Idle]
    /\ files = [n \in Nodes |-> IF n = Server
                                THEN [p \in FilePaths |-> File(<<1>>)]
                                ELSE NoFiles]
    /\ conns = <<ServingSession, ServingSession>>
    /\ log = <<>>

RaceFrames == {StartSync(DATA), StartSync(FILE_A)}

RaceNext ==
    \/ \E c \in ConnIds, f \in RaceFrames : PeerSend(c, f)
    \/ \E c \in ConnIds : PeerRecv(c)
    \/ \E c \in ConnIds : AddSyncGet(c)
    \/ \E c \in ConnIds : AddSyncInsert(c)

RaceSpec == RaceInit /\ [][RaceNext]_vars

----------------------------------------------------------------------------
(* An established sync of A with B: `sync B /data/a.txt /data/b.txt` on A  *)
(* has returned (add_sync and add_watch on A, StartSync registered by B)   *)
(* and both daemons have been started since.                               *)

SyncedInit ==
    /\ permissions = [n \in Nodes |->
                        [p \in AllPaths |-> IF n = "B" /\ p = FILE_A THEN <<"A">> ELSE <<>>]]
    /\ syncs = [n \in Nodes |->
                  [p \in AllPaths |->
                      IF n = "A" /\ p = FILE_B THEN <<SyncConfig("B", FILE_A)>>
                      ELSE IF n = "B" /\ p = FILE_A THEN <<SyncConfig("A", FILE_A)>>
                      ELSE <<>>]]
    /\ watches = [n \in Nodes |-> IF n = "A" THEN {FILE_B} ELSE {FILE_A}]
    /\ running = [n \in Nodes |-> TRUE]
    /\ armed = [n \in Nodes |-> IF n = "A" THEN {FILE_B} ELSE {FILE_A}]
    /\ manager = [n \in Nodes |-> Idle]
    /\ files = [n \in Nodes |-> IF n = "A"
                                THEN [NoFiles EXCEPT ![FILE_B] = File(<<1>>)]
                                ELSE [NoFiles EXCEPT ![FILE_A] = File(<<1>>)]]
    /\ conns = <<>>
    /\ log = <<>>

\* What other processes write: <<node, file, content>>.
SyncedChanges == {<<"A", FILE_B, <<2>>>>, <<"B", FILE_A, <<2>>>>}

SyncedNext ==
    \/ \E a \in SyncedChanges : LocalChange(a[1], a[2], a[3])
    \/ \E n \in Nodes : Callback(n)
    \/ \E n \in Nodes : NextEvent(n)
    \/ \E n \in Nodes : notify_peer(n)
    \/ \E n \in Nodes : NotifyReturns(n)
    \/ \E c \in ConnIds : Connect(c)
    \/ \E c \in ConnIds : NotifyReadHandshake(c)
    \/ \E c \in ConnIds : NotifySendHandshake(c)
    \/ \E c \in ConnIds : NotifySendNotification(c)
    \/ \E c \in ConnIds : CopySendHandshake(c)
    \/ \E c \in ConnIds : CopyReadHandshake(c)
    \/ \E c \in ConnIds : CopySendList(c)
    \/ \E c \in ConnIds : RespSendHandshake(c)
    \/ \E c \in ConnIds : RespReadHandshake(c)
    \/ \E c \in ConnIds : RespReadError(c)
    \/ \E c \in ConnIds : RespFileUpdateNotification(c)
    \/ \E c \in ConnIds : RespOther(c)

SyncedSpec == SyncedInit /\ [][SyncedNext]_vars

----------------------------------------------------------------------------
(* The sync command of A against a peer that answers the copy and denies   *)
(* the StartSync.                                                          *)

\* The peer answers the StartSync of session c with an Error frame.
PeerDenies(c) ==
    LET cn == conns[c]
    IN  /\ cn.resp \in Foreign
        /\ ~cn.rgone
        /\ cn.kind = "register"
        /\ cn.sent # <<>>
        /\ cn.sent[Len(cn.sent)].type = "StartSync"
        /\ cn.toI = <<>>
        /\ conns' = [conns EXCEPT ![c].toI = Append(@, Error(AccessDenied, NoPath))]
        /\ UNCHANGED <<permissions, syncs, watches, running, armed, manager, files, log>>

DenyInit ==
    /\ permissions = [n \in Nodes |-> [p \in AllPaths |-> <<>>]]
    /\ syncs = [n \in Nodes |-> [p \in AllPaths |-> <<>>]]
    /\ watches = [n \in Nodes |-> {}]
    /\ running = [n \in Nodes |-> FALSE]
    /\ armed = [n \in Nodes |-> {}]
    /\ manager = [n \in Nodes |-> Idle]
    /\ files = [n \in Nodes |-> IF n = "A"
                                THEN [NoFiles EXCEPT ![FILE_A] = File(<<1, 2>>)]
                                ELSE NoFiles]
    /\ conns = <<>>
    /\ log = <<>>

\* The command lines typed on A: <<peer, remote_path, local_path>>.
DenyArgs == {<<"K", FILE_A, FILE_B>>, <<"K", FILE_A, FILE_A>>}

DenyReplyFrames ==
    {Handshake(1),
     ListResponse(<<FileMetadata(FILE_A, FALSE)>>),
     FileData(FILE_A, <<2>>),
     FileDelta(FILE_A, calculate_delta(calculate_signature(<<1, 2>>), <<1, 2, 1>>)),
     Error(FileNotFound, FILE_A)}

DenyNext ==
    \/ \E a \in DenyArgs : conns = <<>> /\ sync_run("A", a[1], a[2], a[3])
    \/ \E c \in ConnIds : Connect(c)
    \/ \E c \in ConnIds : CopySendHandshake(c)
    \/ \E c \in ConnIds : CopyReadHandshake(c)
    \/ \E c \in ConnIds : CopySendList(c)
    \/ \E c \in ConnIds : CopyReadList(c)
    \/ \E c \in ConnIds : CopyNext(c)
    \/ \E c \in ConnIds : CopyReadDelta(c)
    \/ \E c \in ConnIds : CopyReadData(c)
    \/ \E c \in ConnIds : WriteCreate(c)
    \/ \E c \in ConnIds : WriteAll(c)
    \/ \E c \in ConnIds : SyncPersist(c)
    \/ \E c \in ConnIds : RegisterReadHandshake(c)
    \/ \E c \in ConnIds : RegisterSendHandshake(c)
    \/ \E c \in ConnIds : RegisterSendStartSync(c)
    \/ \E c \in ConnIds, f \in DenyReplyFrames : PeerReply(c, f)
    \/ \E c \in ConnIds : PeerDenies(c)
    \/ \E c \in ConnIds : PeerHangup(c)

DenySpec == DenyInit /\ [][DenyNext]_vars

----------------------------------------------------------------------------
(* Two sessions with the daemon, of a peer it has allowed on /data/a.txt   *)
(* and of a peer it has not, that are sent the same requests.              *)

\* A session of peer k that has completed its handshake.
SessionOf(k) == [ServingSession EXCEPT !.init = k]

TwinInit ==
    /\ permissions = [n \in Nodes |->
                        [p \in AllPaths |-> IF n = Server /\ p = FILE_A THEN <<"A">> ELSE <<>>]]
    /\ syncs = [n \in Nodes |-> [p \in AllPaths |-> <<>>]]
    /\ watches = [n \in Nodes |-> {}]
    /\ running = [n \in Nodes |-> n = Server]
    /\ armed = [n \in Nodes |-> {}]
    /\ manager = [n \in Nodes |-> Idle]
    /\ files = [n \in Nodes |->
                  IF n = Server
                  THEN [NoFiles EXCEPT ![FILE_A] = File(<<1, 2>>), ![FILE_B] = Unreadable(<<1>>)]
                  ELSE NoFiles]
    /\ conns = <<SessionOf("A"), SessionOf("K")>>
    /\ log = <<>>

\* Both peers send the request f, each on its session.
AskBoth(f) ==
    /\ \A c \in ConnIds : /\ conns[c].toR = <<>>
                          /\ conns[c].rpc = "serving"
                          /\ conns[c].isent < MaxFrames
    /\ conns' = [c \in ConnIds |->
                    [conns[c] EXCEPT !.toR = Append(@, f), !.isent = @ + 1]]
    /\ UNCHANGED <<permissions, syncs, watches, running, armed, manager, files, log>>

TwinFrames ==
    {FileRequest(p) : p \in ServePaths}
    \cup {FileSignature(p, sig) : p \in ServePaths,
                                  sig \in {calculate_signature(<<1>>), NoSignature}}

TwinNext ==
    \/ \E f \in TwinFrames : AskBoth(f)
    \/ \E k \in {"A", "K"} : run_allow(Server, k, FILE_A)
    \/ \E k \in {"A", "K"} : run_disallow(Server, k, FILE_A)
    \/ \E c \in ConnIds : RespFileRequest(c)
    \/ \E c \in ConnIds : RespFileSignature(c)

TwinSpec == TwinInit /\ [][TwinNext]_vars

----------------------------------------------------------------------------
(* An established sync of A with a peer K that serves A's pulls: A's file  *)
(* /data/a.txt is synced with K's, A's daemon runs with its watcher armed  *)
(* on the file, and K notifies A of a change of its copy.                  *)

EchoInit ==
    /\ permissions = [n \in Nodes |-> [p \in AllPaths |-> <<>>]]
    /\ syncs = [n \in Nodes |->
                  [p \in AllPaths |->
                      IF n = "A" /\ p = FILE_A THEN <<SyncConfig("K", FILE_A)>> ELSE <<>>]]
    /\ watches = [n \in Nodes |-> IF n = "A" THEN {FILE_A} ELSE {}]
    /\ running = [n \in Nodes |-> n = "A"]
    /\ armed = [n \in Nodes |-> IF n = "A" THEN {FILE_A} ELSE {}]
    /\ manager = [n \in Nodes |-> Idle]
    /\ files = [n \in Nodes |-> IF n = "A"
                                THEN [NoFiles EXCEPT ![FILE_A] = File(<<1>>)]
                                ELSE NoFiles]
    /\ conns = <<>>
    /\ log = <<>>

\* What K sends on the session it opens, and what it answers A's sessions with.
EchoPeerFrames == {Handshake(1), FileUpdateNotification(FILE_A)}
EchoReplyFrames ==
    {Handshake(1),
     ListResponse(<<FileMetadata(FILE_A, FALSE)>>),
     FileDelta(FILE_A, calculate_delta(calculate_signature(<<1>>), <<2>>))}

EchoNext ==
    \/ conns = <<>> /\ PeerConnect("K", "A")
    \/ \E c \in ConnIds, f \in EchoPeerFrames : conns[c].isent < 2 /\ PeerSend(c, f)
    \/ \E c \in ConnIds : PeerRecv(c)
    \/ \E c \in ConnIds, f \in EchoReplyFrames : PeerReply(c, f)
    \/ manager["A"].changed = <<>> /\ LocalChange("A", FILE_A, <<1, 2>>)
    \/ Callback("A")
    \/ NextEvent("A")
    \/ notify_peer("A")
    \/ NotifyReturns("A")
    \/ \E c \in ConnIds : Connect(c)
    \/ \E c \in ConnIds : NotifyReadHandshake(c)
    \/ \E c \in ConnIds : NotifySendHandshake(c)
    \/ \E c \in ConnIds : NotifySendNotification(c)
    \/ \E c \in ConnIds : RespSendHandshake(c)
    \/ \E c \in ConnIds : RespReadHandshake(c)
    \/ \E c \in ConnIds : RespFileUpdateNotification(c)
    \/ \E c \in ConnIds : CopySendHandshake(c)
    \/ \E c \in ConnIds : CopyReadHandshake(c)
    \/ \E c \in ConnIds : CopySendList(c)
    \/ \E c \in ConnIds : CopyReadList(c)
    \/ \E c \in ConnIds : CopyNext(c)
    \/ \E c \in ConnIds : CopyReadDelta(c)
    \/ \E c \in ConnIds : WriteCreate(c)
    \/ \E c \in ConnIds : WriteAll(c)

EchoSpec == EchoInit /\ [][EchoNext]_vars

----------------------------------------------------------------------------
(* The framing of a message: write_message and read_message (the same in   *)
(* serve.rs, copy.rs, sync.rs and sync_manager.rs) on a FileData frame     *)
(* that carries a whole file.                                              *)

\* The width of the length prefix in bits: 32 in write_message, scaled down.
\* data.len() is a usize, wider than the prefix.
ModelPrefixBits == 3

\* The files a FileData frame carries: a few bytes of any content, then up
\* to as many bytes as the prefix can count.
FrameContents ==
    {d \o [i \in 1..k |-> 1] : d \in DeltaContents, k \in 0..(2 ^ ModelPrefixBits)}

\* The index of the variant FileData in enum Message, which postcard writes
\* first.
FileDataTag == 8

\* postcard::to_stdvec of FileData{data}: the tag of the variant, the length
\* of data and its bytes (the path is the same in every frame here).
to_stdvec(msg) == <<FileDataTag, Len(msg.data)>> \o msg.data

\* postcard::from_bytes: an error unless the bytes are one whole message.
from_bytes(buf) ==
    IF /\ Len(buf) >= 2
       /\ buf[1] = FileDataTag
       /\ buf[2] = Len(buf) - 2
    THEN FileData(FILE_A, SubSeq(buf, 3, Len(buf)))
    ELSE Undecodable

\* data.len() as u32.
as_u32(len) == len % (2 ^ ModelPrefixBits)

\* write_message puts the prefix and then all the bytes of data on the
\* stream.
write_message(msg) ==
    LET data == to_stdvec(msg)
    IN  [prefix |-> as_u32(Len(data)), bytes |-> data]

\* read_message takes the prefix, then that many bytes, and decodes them; rest
\* is what it leaves on the stream.  Fewer bytes than the prefix says are not
\* the case here: the writer has written every byte of data.
read_message(stream) ==
    LET len == stream.prefix
        buf == SubSeq(stream.bytes, 1, len)
    IN  [msg |-> from_bytes(buf), rest |-> SubSeq(stream.bytes, len + 1, Len(stream.bytes))]

FrameInit ==
    /\ permissions = [n \in Nodes |-> [p \in AllPaths |-> <<>>]]
    /\ syncs = [n \in Nodes |-> [p \in AllPaths |-> <<>>]]
    /\ watches = [n \in Nodes |-> {}]
    /\ running = [n \in Nodes |-> FALSE]
    /\ armed = [n \in Nodes |-> {}]
    /\ manager = [n \in Nodes |-> Idle]
    /\ files = [n \in Nodes |-> NoFiles]
    /\ conns = <<>>
    /\ log = <<>>

\* The responder writes FileData{path, data} for a file of content data.
CallWriteMessage(data) ==
    /\ log = <<>>
    /\ log' = <<[op |-> "write_message", msg |-> FileData(FILE_A, data),
                 stream |-> write_message(FileData(FILE_A, data)),
                 ret |-> [msg |-> NoFrame, rest |-> <<>>]]>>
    /\ UNCHANGED <<permissions, syncs, watches, running, armed, manager, files, conns>>

\* The initiator reads the frame from the stream.
CallReadMessage ==
    /\ Len(log) = 1
    /\ log' = Append(log, [op |-> "read_message", msg |-> log[1].msg,
                           stream |-> log[1].stream,
                           ret |-> read_message(log[1].stream)])
    /\ UNCHANGED <<permissions, syncs, watches, running, armed, manager, files, conns>>

FrameNext ==
    \/ \E data \in FrameContents : CallWriteMessage(data)
    \/ CallReadMessage

FrameSpec == FrameInit /\ [][FrameNext]_vars

----------------------------------------------------------------------------
(* Authorization of StartSync.                                             *)

\* The responder of session c reads a StartSync in this step.
StartSyncStep(c) ==
    /\ Serving(c, "StartSync")
    /\ conns'[c].toR = Tail(conns[c].toR)
    /\ conns'[c].rread

SyncRoots(n) == {p \in AllPaths : syncs[n][p] # <<>>}

\* C1: a StartSync{path} from peer k adds the entry (k, path) under
\* canonical(path) exactly when k is in permissions(canonical(path)) at that
\* moment; otherwise nothing is added and k is sent an Error frame (which
\* only a peer that is still connected can be sent).
C1_EntryIffPermittedOnCanonical ==
    [][\A c \in ConnIds : StartSyncStep(c) =>
        LET cn == conns[c]
            n == cn.resp
            path == Head(cn.toR).path
            canonical == canonicalize(n, path)
        IN  IF canonical # NoPath /\ Contains(permissions[n][canonical], cn.init)
            THEN syncs'[n] = add_sync(syncs[n], cn.init, path, canonical)
            ELSE /\ syncs'[n] = syncs[n]
                 /\ \/ cn.iclosed
                    \/ /\ Len(conns'[c].toI) = Len(cn.toI) + 1
                       /\ conns'[c].toI[Len(cn.toI) + 1].type = "Error"]_vars

\* C2: a denied StartSync (the peer is not in the permissions of the path the
\* handler resolved) leaves syncs and watches as they were; on a connection
\* that is still open the reply is Error{"Access denied or path not allowed"},
\* the session stays in the serving loop and the rest of the stream is intact.
C2_DeniedStartSync ==
    [][\A c \in ConnIds :
        (/\ StartSyncStep(c)
         /\ ~Contains(permissions[conns[c].resp][abs_path(conns[c].resp, Head(conns[c].toR).path)],
                      conns[c].init))
        => /\ syncs' = syncs
           /\ watches' = watches
           /\ ~conns[c].iclosed =>
                /\ conns'[c].toI = Append(conns[c].toI, Error(AccessDenied, NoPath))
                /\ conns'[c].rpc = "serving"]_vars

\* A session went on after a denial: the Error is followed by the reply to a
\* later request.
C2_Witness ==
    \E c \in ConnIds :
        /\ conns[c].rpc = "serving"
        /\ Len(conns[c].toI) >= 2
        /\ \E i \in 1..(Len(conns[c].toI) - 1) :
              /\ conns[c].toI[i] = Error(AccessDenied, NoPath)
              /\ conns[c].toI[i + 1].type = "FileData"

\* C3: permissions are path-exact.  Whatever a peer is permitted elsewhere, a
\* StartSync of that peer adds no entry under a path q that does not list it.
C3_PathExact ==
    [][\A c \in ConnIds : StartSyncStep(c) =>
        \A q \in AllPaths :
            ~Contains(permissions[conns[c].resp][q], conns[c].init)
            => syncs'[conns[c].resp][q] = syncs[conns[c].resp][q]]_vars

\* A is permitted on /data/a.txt and registered there; its request for the
\* parent directory, which does not list it, was answered with the denial.
C3_Witness ==
    \E c \in ConnIds :
        /\ conns[c].init = "A"
        /\ Contains(permissions[Server][FILE_A], "A")
        /\ ~Contains(permissions[Server][DATA], "A")
        /\ syncs[Server][FILE_A] # <<>>
        /\ syncs[Server][DATA] = <<>>
        /\ conns[c].toI # <<>>
        /\ conns[c].toI[Len(conns[c].toI)] = Error(AccessDenied, NoPath)

\* C4: the key of the permission lookup and of add_sync is the canonical form
\* of the received path, absolute or relative; a path that does not
\* canonicalize is denied.
C4_LookupKeyIsCanonical ==
    \A c \in ConnIds :
        \A p \in AllPaths : Serving(c, "StartSync") /\ Head(conns[c].toR).path = p =>
            LET n == conns[c].resp
                canonical == canonicalize(n, p)
            IN  IF canonical = NoPath
                THEN ~Contains(get_permissions(permissions[n], abs_path(n, p)), conns[c].init)
                ELSE abs_path(n, p) = canonical

\* C9: while the daemon runs, the watcher is armed on exactly the watched
\* paths and the local roots of the registered syncs.
C9_ArmedIsWatchesAndSyncRoots ==
    \A n \in Nodes : running[n] => armed[n] = watches[n] \cup SyncRoots(n)

----------------------------------------------------------------------------
(* The handshake.                                                          *)

\* The task of the session has completed its handshake.
PastHandshake(cn) ==
    \/ cn.kind = "pull" /\ cn.ipc \in {"hs_done", "list_sent", "files", "sig_sent",
                                       "req_sent", "write", "writing", "copied", "done"}
    \/ cn.kind \in {"notify", "register"} /\ cn.ipc \in {"hs_read", "hs_sent", "done"}

\* C5: in every session the program answers, the first frame the responder
\* sends is Handshake{version: 1}, it reads no frame before it has sent it,
\* and the first frame the initiator receives is that Handshake; a task of
\* the program (pull, notification, StartSync registration) gets past its
\* handshake only when the first frame it received is a Handshake.
C5_HandshakeFirst ==
    \A c \in ConnIds :
        LET cn == conns[c]
        IN  /\ cn.resp \in Nodes =>
                /\ cn.rwrote => cn.rfirst = Handshake(1)
                /\ cn.rread => cn.rwrote
                /\ cn.iread => cn.ifirst = Handshake(1)
            /\ (cn.init \in Nodes /\ cn.kind # "peer" /\ PastHandshake(cn))
                => cn.iread /\ cn.ifirst.type = "Handshake"

\* A pull of the program at a responder of the program: each side has read
\* the Handshake of the other.
C5_Witness ==
    \E c \in ConnIds :
        /\ conns[c].kind = "pull"
        /\ conns[c].resp \in Nodes
        /\ conns[c].rpc = "serving"
        /\ conns[c].iread
        /\ conns[c].rread
        /\ conns[c].ifirst = Handshake(1)

\* C6: every initiator of the program (pull, notification, registration) has
\* read the responder's Handshake before it sends its own.
C6_InitiatorReadsFirst ==
    \A c \in ConnIds :
        (conns[c].init \in Nodes /\ conns[c].kind # "peer" /\ conns[c].isent > 0)
        => conns[c].iread

----------------------------------------------------------------------------
(* The local file of a pull.                                               *)

\* C10: a pull that found a file at its target leaves there, at every moment
\* and however it ends, the complete old content or the complete new one.
C10_OldOrNew ==
    \A c \in ConnIds :
        (conns[c].kind = "pull" /\ conns[c].had_local)
        => files[conns[c].init][Follow(conns[c].target)]
              \in {File(conns[c].local_data), File(conns[c].new_data)}

----------------------------------------------------------------------------
(* Copy and sync, end to end.                                              *)

\* C8: a copy of a regular file of a responder of the program, once
\* connected, ends without error with the responder's content at local_path.
C8_CopyTerminates ==
    \A c \in 1..MaxConns :
        (/\ c \in ConnIds
         /\ conns[c].kind = "pull"
         /\ conns[c].resp \in Nodes
         /\ conns[c].ipc = "connected"
         /\ is_file(conns[c].resp, conns[c].remote_path))
        ~> (/\ c \in ConnIds
            /\ conns[c].resp \in Nodes
            /\ is_file(conns[c].resp, conns[c].remote_path)
            /\ conns[c].ipc \in {"copied", "done"}
            /\ files[conns[c].init][Follow(conns[c].local_path)]
                 = files[conns[c].resp][Follow(conns[c].remote_path)])

\* The sync command of session c, A against B for a file B has allowed A, is
\* connected, and both daemons run.
SyncOfAWithB(c) ==
    /\ c \in ConnIds
    /\ conns[c].kind = "pull"
    /\ conns[c].sync
    /\ conns[c].init = "A"
    /\ conns[c].resp = "B"
    /\ conns[c].ipc \notin {"start", "failed", "cancelled"}
    /\ Contains(permissions["B"][conns[c].remote_path], "A")
    /\ running["A"]
    /\ running["B"]

\* It has returned, and B has registered A for the file.
Established(c) ==
    /\ SyncOfAWithB(c)
    /\ conns[c].ipc = "done"
    /\ \E i \in 1..Len(syncs["B"][conns[c].remote_path]) :
          syncs["B"][conns[c].remote_path][i].peer = "A"

\* C7: when A runs sync against B for a file B has allowed A and both daemons
\* run, the sync gets established; once it is, a write by B to its file
\* leads to a FileUpdateNotification of B to A and to A's local file being
\* equal to B's.
C7_ReverseSyncPropagates ==
    \A c \in 1..MaxConns :
        /\ (SyncOfAWithB(c) /\ conns[c].ipc = "connected") ~> Established(c)
        /\ (Established(c) /\ Contains(manager["B"].changed, conns[c].remote_path))
           ~> (/\ \E d \in ConnIds : /\ conns[d].kind = "notify"
                                     /\ conns[d].init = "B"
                                     /\ conns[d].resp = "A"
                                     /\ conns[d].ipc = "done"
               /\ files["A"][Follow(conns[c].local_path)]
                    = files["B"][Follow(conns[c].remote_path)])

----------------------------------------------------------------------------
(* The watcher's channel.                                                  *)

\* C11: when the channel is full, the callback drops the event it is called
\* with and returns: the channel is as it was and the callback's thread is
\* not blocked.
C11_FullChannelDrops ==
    [][\A n \in Nodes :
        (/\ Len(manager[n].events) = ModelChannel
         /\ manager[n].os # <<>>
         /\ manager'[n].os = Tail(manager[n].os))
        => /\ manager'[n].events = manager[n].events
           /\ manager'[n].held = NoPath]_vars

----------------------------------------------------------------------------
(* The store.                                                              *)

Occurrences(list, k) == Cardinality({i \in 1..Len(list) : list[i] = k})

\* The call the step makes, when it makes one.
Called(op) == /\ Len(log') = Len(log) + 1
              /\ log'[Len(log')].op = op

LastCall == log'[Len(log')]

\* C12: a peer occurs at most once in the permissions of a path, and
\* allow_peer for a peer the path already lists leaves the list as it was.
C12_AllowIdempotent ==
    /\ [](\A n \in Nodes, p \in AllPaths, k \in Peers :
            Occurrences(get_permissions(permissions[n], p), k) <= 1)
    /\ [][\A n \in Nodes :
            (/\ Called("allow_peer")
             /\ Contains(get_permissions(permissions[n], LastCall.path), LastCall.peer))
            => permissions'[n] = permissions[n]]_vars

\* allow_peer was called twice for one path and peer.
C12_Witness ==
    \E i, j \in 1..Len(log) :
        /\ i < j
        /\ log[i].op = "allow_peer" /\ log[j].op = "allow_peer"
        /\ log[i].path = log[j].path /\ log[i].peer = log[j].peer
        /\ Occurrences(get_permissions(permissions[Server], log[i].path), log[i].peer) = 1

Without(list, k) == SelectSeq(list, LAMBDA x : x # k)

\* C13: disallow_peer takes the peer out of the list of the path and keeps the
\* other peers of the path, and every other path, as they were; when the peer
\* is not in the list (an empty list included) the permissions are unchanged.
C13_DisallowRemoves ==
    [][\A n \in Nodes :
        Called("disallow_peer") =>
            LET p == LastCall.path
                k == LastCall.peer
            IN  /\ ~Contains(get_permissions(permissions'[n], p), k)
                /\ get_permissions(permissions'[n], p)
                     = Without(get_permissions(permissions[n], p), k)
                /\ \A q \in AllPaths \ {p} : permissions'[n][q] = permissions[n][q]
                /\ ~Contains(get_permissions(permissions[n], p), k)
                     => permissions'[n] = permissions[n]]_vars

\* allow_peer then disallow_peer of one peer, on a path that lists another
\* peer; and a disallow_peer on a path with no entry.
C13_Witness ==
    /\ Len(log) = 4
    /\ log[1].op = "allow_peer" /\ log[2].op = "allow_peer"
    /\ log[3].op = "disallow_peer" /\ log[4].op = "disallow_peer"
    /\ log[1].path = log[2].path /\ log[2].path = log[3].path
    /\ log[1].peer # log[2].peer /\ log[3].peer = log[2].peer
    /\ log[4].path # log[1].path
    /\ get_permissions(permissions[Server], log[1].path) = <<log[1].peer>>

\* The add_watch of the path that no later remove_watch of the path follows,
\* among the first i calls.
Watched(i, p) ==
    \E a \in 1..i :
        /\ log[a].op = "add_watch" /\ log[a].path = p
        /\ \A r \in (a + 1)..i : ~(log[r].op = "remove_watch" /\ log[r].path = p)

\* C14: remove_watch(p) returns true exactly when an add_watch(p) came earlier
\* with no remove_watch(p) in between, and after any remove_watch(p) the path
\* is not in list_watches().
C14_RemoveWatchReturns ==
    /\ \A i \in 1..Len(log) :
          log[i].op = "remove_watch" => (log[i].ret <=> Watched(i - 1, log[i].path))
    /\ (Len(log) > 0 /\ log[Len(log)].op = "remove_watch")
          => \A j \in 1..Len(list_watches(watches[Server])) :
                list_watches(watches[Server])[j] # log[Len(log)].path

\* A path is added, removed (true), removed again (false), while another path
\* stays watched.
C14_Witness ==
    /\ Len(log) = 4
    /\ log[1].op = "add_watch" /\ log[2].op = "add_watch"
    /\ log[1].path # log[2].path
    /\ log[3].op = "remove_watch" /\ log[3].path = log[1].path /\ log[3].ret
    /\ log[4].op = "remove_watch" /\ log[4].path = log[1].path /\ ~log[4].ret
    /\ list_watches(watches[Server]) = <<log[2].path>>

\* The configs list_syncs() returns for a local path.
Listed(lp) ==
    LET all == list_syncs(syncs[Server])
    IN  IF \E i \in 1..Len(all) : all[i][1] = lp
        THEN all[CHOOSE i \in 1..Len(all) : all[i][1] = lp][2]
        ELSE <<>>

\* The entries add_sync was called with for a local path, in call order.
RECURSIVE Added(_, _)
Added(i, lp) ==
    IF i = 0 THEN <<>>
    ELSE Added(i - 1, lp) \o
         (IF log[i].op = "add_sync" /\ log[i].path = lp
          THEN <<SyncConfig(log[i].peer, log[i].remote_path)>> ELSE <<>>)

\* C15: add_sync appends its entry at the end of the sequence of its local
\* path, an equal entry included, and leaves every other sequence alone;
\* list_syncs() returns every entry added so far.
C15_AddSyncAppends ==
    /\ [][LET n == Server IN
            Called("add_sync") =>
                /\ syncs'[n][LastCall.path]
                     = Append(syncs[n][LastCall.path],
                              SyncConfig(LastCall.peer, LastCall.remote_path))
                /\ \A q \in AllPaths \ {LastCall.path} : syncs'[n][q] = syncs[n][q]]_vars
    /\ [](\A lp \in AllPaths : Listed(lp) = Added(Len(log), lp))

\* An entry added twice to one local path, after another entry, and an entry
\* of another local path.
C15_Witness ==
    /\ Len(log) = 4
    /\ \A i \in 1..4 : log[i].op = "add_sync"
    /\ log[1].path = log[2].path /\ log[2].path = log[3].path
    /\ log[1].peer # log[2].peer /\ log[3].peer = log[2].peer
    /\ log[4].path # log[1].path
    /\ Len(Listed(log[1].path)) = 3
    /\ Len(list_syncs(syncs[Server])) = 2

\* C16: the delta of a new content against the signature of an old content,
\* applied to the old content, gives the new content.
C16_RoundTrip ==
    \A i \in 1..Len(log) :
        log[i].op = "apply_delta" => (log[i].ret.ok /\ log[i].ret.data = log[i].new_data)

\* C17: for a config of the notifying peer, a path equal to remote_path is
\* pulled to local_root, a path that starts with remote_path and a separator is
\* pulled to local_root joined with what follows that prefix, and nothing else
\* is pulled; nothing is pulled for a config of another peer.
C17_NotificationMapping ==
    \A i \in 1..Len(log) :
        log[i].op = "FileUpdateNotification" =>
            LET e == log[i]
                prefix == e.config.remote_path \o <<Sep>>
                remainder == SubSeq(e.path, Len(prefix) + 1, Len(e.path))
            IN  e.ret = IF e.config.peer # e.remote_id THEN NoPull
                        ELSE IF e.path = e.config.remote_path
                             THEN Pull(components(e.local_root))
                        ELSE IF string_starts_with(e.path, prefix)
                             THEN Pull(components(e.local_root) \o Names(remainder, <<>>))
                        ELSE NoPull

\* The requests for a file among the frames a task wrote.
Requests(cn) == SelectSeq(cn.sent, LAMBDA f : f.type \in {"FileSignature", "FileRequest"})

\* C18: for a file it has as a regular file the pull sends the signature of
\* its content, for one it does not have it asks for the file; it sends one
\* request per file; and when it has written the reply the local file is the
\* content the responder served.
C18_SingleFilePull ==
    /\ [][\A c \in ConnIds :
            LET cn == conns[c]
                n == cn.init
                sent == conns'[c].sent
            IN  (/\ cn.kind = "pull"
                 /\ Len(sent) = Len(cn.sent) + 1
                 /\ sent[Len(sent)].type \in {"FileSignature", "FileRequest"})
                => /\ (exists(n, cn.local_path) /\ is_file(n, cn.local_path))
                        => sent[Len(sent)]
                             = FileSignature(cn.remote_path,
                                   calculate_signature(files[n][Follow(cn.local_path)].data))
                   /\ ~exists(n, cn.local_path)
                        => sent[Len(sent)] = FileRequest(cn.remote_path)]_vars
    /\ [](\A c \in ConnIds :
            LET cn == conns[c]
            IN  (cn.kind = "pull" /\ cn.ipc = "done" /\ log # <<>>
                 /\ log[Len(log)].op = "served")
                => /\ Len(Requests(cn)) = 1
                   /\ files[cn.init][Follow(cn.local_path)] = File(log[Len(log)].content))

\* The responder of session c reads a frame of this type in this step, on a
\* connection the peer has not closed.
ServesStep(c, type) ==
    /\ Serving(c, type)
    /\ ~conns[c].iclosed
    /\ conns'[c].toR = Tail(conns[c].toR)
    /\ conns'[c].rread

\* C19: a FileRequest gets one reply, the FileData of the file's content for a
\* regular file and Error "File not found: <path>" otherwise; the store is
\* unchanged and the session goes on serving.
C19_FileRequestReply ==
    [][\A c \in ConnIds :
        ServesStep(c, "FileRequest") =>
            LET cn == conns[c]
                n == cn.resp
                path == Head(cn.toR).path
            IN  /\ conns'[c].toI
                     = Append(cn.toI,
                              IF exists(n, path) /\ is_file(n, path)
                              THEN FileData(path, files[n][Follow(path)].data)
                              ELSE Error(FileNotFound, path))
                /\ conns'[c].rpc = "serving"
                /\ UNCHANGED <<permissions, syncs, watches>>]_vars

\* C20: a FileSignature gets one reply, the FileDelta of the file's content
\* against the signature when the file is a regular file and the signature
\* parses, and an Error frame on every failure; the session goes on serving.
C20_FileSignatureReply ==
    [][\A c \in ConnIds :
        ServesStep(c, "FileSignature") =>
            LET cn == conns[c]
                n == cn.resp
                path == Head(cn.toR).path
                sig == Head(cn.toR).signature
                reply == conns'[c].toI[Len(conns'[c].toI)]
            IN  /\ Len(conns'[c].toI) = Len(cn.toI) + 1
                /\ SubSeq(conns'[c].toI, 1, Len(cn.toI)) = cn.toI
                /\ IF exists(n, path) /\ is_file(n, path) /\ sig.ok
                   THEN reply = FileDelta(path, calculate_delta(sig, files[n][Follow(path)].data))
                   ELSE reply.type = "Error"
                /\ conns'[c].rpc = "serving"]_vars

\* C21: a ListRequest read by a serving responder is answered with one
\* frame, a ListResponse or an Error.
C21_ListRequestAnswered ==
    [][\A c \in ConnIds :
        ServesStep(c, "ListRequest") =>
            /\ Len(conns'[c].toI) = Len(conns[c].toI) + 1
            /\ conns'[c].toI[Len(conns'[c].toI)].type \in {"ListResponse", "Error"}]_vars

\* C22: before the handshake completes the responder handles nothing: the
\* first frame it reads is read with no reply and no change of the store, and
\* the session goes on to serve when the frame is a Handshake and ends with an
\* error when it is anything else.
C22_HandshakeGate ==
    /\ [](\A c \in ConnIds :
            (conns[c].resp \in Nodes /\ conns[c].rpc \in {"init", "handshake"})
                => ~conns[c].rread)
    /\ [][\A c \in ConnIds :
            (/\ conns[c].resp \in Nodes
             /\ conns[c].rpc \in {"init", "handshake"}
             /\ conns[c].toR # <<>>
             /\ conns'[c].toR = Tail(conns[c].toR))
            => /\ conns'[c].rpc = IF Head(conns[c].toR).type = "Handshake"
                                  THEN "serving" ELSE "failed"
               /\ conns'[c].toI = conns[c].toI
               /\ UNCHANGED <<permissions, syncs, watches>>]_vars

\* A session ended on a first frame that is a StartSync of a permitted path,
\* with nothing registered.
C22_Witness ==
    \E c \in ConnIds :
        /\ conns[c].rpc = "failed"
        /\ conns[c].rread
        /\ conns[c].isent = 1
        /\ ~conns[c].iclosed
        /\ Contains(permissions[Server][FILE_A], conns[c].init)
        /\ syncs[Server][FILE_A] = <<>>

\* C23: a frame with no handler read by a serving responder gets no reply,
\* changes nothing in the store and leaves the session serving; a read error
\* ends the serving loop and the session returns success.
C23_UnhandledAndReadError ==
    [][\A c \in ConnIds :
        /\ (/\ \E t \in {"Handshake", "FileData", "FileDelta", "ListResponse", "Error"} :
                  Serving(c, t)
            /\ conns'[c].toR = Tail(conns[c].toR)
            /\ conns'[c].rread)
           => /\ conns'[c].toI = conns[c].toI
              /\ conns'[c].rpc = "serving"
              /\ UNCHANGED <<permissions, syncs, watches>>
        /\ (/\ conns[c].resp \in Nodes
            /\ conns[c].rpc = "serving"
            /\ ReadError(conns[c])
            /\ conns'[c].rpc # "serving")
           => conns'[c].rpc = "closed"]_vars

\* A session that read a frame after the handshake without replying and then
\* ended, with success, on bytes that do not decode, the peer still connected.
C23_Witness ==
    \E c \in ConnIds :
        /\ conns[c].rpc = "closed"
        /\ ~conns[c].iclosed
        /\ conns[c].isent = 3
        /\ conns[c].toI = <<Handshake(1)>>

\* C24: when the file of a request cannot be read after the existence check,
\* the responder reports it with an Error frame and goes on serving.
C24_RequestFailureReported ==
    [][\A c \in ConnIds :
        (/\ \E t \in {"FileRequest", "FileSignature"} : ServesStep(c, t)
         /\ ReadFails(conns[c].resp, Head(conns[c].toR).path))
        => /\ Len(conns'[c].toI) = Len(conns[c].toI) + 1
           /\ conns'[c].toI[Len(conns'[c].toI)].type = "Error"
           /\ conns'[c].rpc = "serving"]_vars

\* A string without the separators it ends with.
RECURSIVE TrimSep(_)
TrimSep(s) == IF ends_with(s, Sep) THEN TrimSep(SubSeq(s, 1, Len(s) - 1)) ELSE s

\* C25: handle_local_change notifies, for a root that is the changed path or
\* an ancestor of it by components, every config of the root once, duplicates
\* included: of remote_path when the root is the changed path, of remote_path
\* and the relative path with one separator between them otherwise; a root
\* that is no ancestor gives no notification.
C25_LocalChangeNotifies ==
    \A i \in 1..Len(log) :
        log[i].op = "handle_local_change" =>
            LET local_root == log[i].list[1][1]
                configs == log[i].list[1][2]
                root == components(local_root)
                path == components(log[i].path)
                relative == Render(SubSeq(path, Len(root) + 1, Len(path)))
            IN  IF Len(root) <= Len(path) /\ SubSeq(path, 1, Len(root)) = root
                THEN /\ Len(log[i].ret) = Len(configs)
                     /\ \A j \in 1..Len(configs) :
                           /\ log[i].ret[j][1] = configs[j].peer
                           /\ log[i].ret[j][2]
                                = IF root = path THEN configs[j].remote_path
                                  ELSE TrimSep(configs[j].remote_path) \o <<Sep>> \o relative
                ELSE log[i].ret = <<>>

\* C26: the event loop goes on after a failure: when notify_peer returns,
\* with an error or without, the configs of the change that remain are still
\* to be notified and the events in the channel are kept; an error of the
\* watcher is taken from the channel and the loop waits for the next event.
C26_LoopSurvives ==
    [][\A n \in Nodes :
        /\ (manager[n].cur # 0 /\ manager'[n].cur = 0)
           => /\ manager'[n].todo = manager[n].todo
              /\ manager'[n].events = manager[n].events
              /\ running'[n]
        /\ (/\ manager[n].events # <<>>
            /\ Head(manager[n].events) = WatchError
            /\ manager'[n].events = Tail(manager[n].events))
           => /\ manager'[n].todo = <<>>
              /\ manager'[n].cur = 0
              /\ running'[n]]_vars

\* After an error of the watcher, the notification of A has failed (A does
\* not listen) and that of K, the next config of the same change, is done.
C26_Witness ==
    \E c \in ConnIds :
        /\ c + 1 \in ConnIds
        /\ conns[c].kind = "notify" /\ conns[c].resp = "A" /\ conns[c].ipc = "failed"
        /\ conns[c + 1].kind = "notify" /\ conns[c + 1].resp = "K"
        /\ conns[c + 1].ipc = "done"
        /\ conns[c + 1].remote_path = conns[c].remote_path
        /\ manager[Server].changed[1] = WatchError

\* The configs of node n that a notification of path from remote_id matches,
\* each named by its sync root and its position under that root.
Matching(n, remote_id, path) ==
    {rc \in AllPaths \X (1..MaxConns) :
        /\ rc[2] <= Len(syncs[n][rc[1]])
        /\ syncs[n][rc[1]][rc[2]].peer = remote_id
        /\ IsPrefixPath(syncs[n][rc[1]][rc[2]].remote_path, path)}

\* C27: on a FileUpdateNotification the responder starts one pull task per
\* matching sync config, each a task of the daemon that has not run yet, and
\* is back at reading its session in the same step; the step touches no other
\* task, whatever state it is in, and a FileRequest that waits on the session
\* can always be served, whatever the pulls do.
C27_PullPerConfig ==
    /\ [][\A c \in ConnIds :
            (/\ Serving(c, "FileUpdateNotification")
             /\ conns'[c].toR = Tail(conns[c].toR))
            => /\ Len(conns') = Len(conns)
                    + Cardinality(Matching(conns[c].resp, conns[c].init,
                                           Head(conns[c].toR).path))
               /\ \A d \in (Len(conns) + 1)..Len(conns') :
                    /\ conns'[d].kind = "pull"
                    /\ conns'[d].owner = "daemon"
                    /\ conns'[d].ipc = "start"
                    /\ conns'[d].init = conns[c].resp
                    /\ conns'[d].resp = conns[c].init
                    /\ conns'[d].remote_path = Head(conns[c].toR).path
               /\ conns'[c].rpc = "serving"
               /\ \A d \in ConnIds \ {c} : conns'[d] = conns[d]]_vars
    /\ [](\A c \in ConnIds :
            Serving(c, "FileRequest") => ENABLED RespFileRequest(c))

\* Of the two pulls one has failed and the other has written its file, and the
\* session that started them has a FileRequest to serve next.
C27_Witness ==
    /\ Len(conns) = 3
    /\ conns[2].kind = "pull" /\ conns[2].ipc = "failed"
    /\ conns[3].kind = "pull" /\ conns[3].ipc = "done"
    /\ files[Server][FILE_B] = File(<<2>>)
    /\ Serving(1, "FileRequest")

\* C28: the event loop does not hold the watcher mutex while it is suspended
\* in next_event() on an empty channel: a task that waits in lock() while the
\* channel is empty finds the mutex free.
C28_LockFreeWhileWaiting ==
    \A n \in Nodes :
        (manager[n].waiter = "waiting" /\ manager[n].events = <<>>)
        => manager[n].lock = "free"

\* Something is at the absolute path p on the disk of node n.
OnDisk(n, p) == p \in DirPaths \/ (p \in FilePaths /\ files[n][p].kind # "absent")

\* C29: the start of the daemon arms the watcher on exactly the stored watches
\* that exist on disk; a stored watch that does not exist is skipped and stays
\* in the store, the others are armed and the event loop starts.
C29_ArmsExistingWatches ==
    [][\A n \in Nodes :
        (~running[n] /\ running'[n])
        => /\ armed'[n] = {p \in watches[n] : OnDisk(n, p)}
           /\ watches'[n] = watches[n]]_vars

\* The daemon runs with one stored watch armed and another, which is not on
\* disk, skipped and still stored; its event loop has taken the watcher.
C29_Witness ==
    /\ running[Server]
    /\ manager[Server].waiter = "none"
    /\ manager[Server].lock = "loop"
    /\ armed[Server] # {}
    /\ \E p \in watches[Server] \ armed[Server] : ~OnDisk(Server, p)

\* The add_sync calls for local path p that have returned.
AddSyncCalls(p) == {i \in DOMAIN log : log[i].op = "add_sync" /\ log[i].path = p}

\* C30: whatever the interleaving of the sessions, the list stored for a
\* local path holds one entry for every add_sync call that has returned for
\* it: no call's push is lost.
C30_NoLostUpdate ==
    \A p \in AllPaths :
        Len(syncs[Server][p]) >= Cardinality(AddSyncCalls(p))

\* The local file of the one sync of node m.
SyncedFile(m) == CHOOSE p \in AllPaths : syncs[m][p] # <<>>

Denied(c) ==
    /\ conns[c].kind = "register"
    /\ \E i \in DOMAIN conns[c].toI : conns[c].toI[i].type = "Error"

\* C32: when the peer denies the StartSync, the sync command has not ended in
\* success, and the initiator's store holds neither the sync config nor the
\* watch of the command.
C32_DeniedSyncLeavesNothing ==
    \A c \in ConnIds :
        Denied(c)
        => LET cn == conns[c]
           IN  /\ cn.ipc # "done"
               /\ ~Contains(syncs[cn.init][cn.local_path],
                            SyncConfig(cn.resp, cn.remote_path))
               /\ cn.local_path \notin watches[cn.init]

\* C33: two sessions that have been sent the same FileRequest and
\* FileSignature frames, one of a peer in permissions(path) and one of a peer
\* that is not, have been given the same replies once both are served,
\* whatever the permission store held at each reply.
C33_ReplyIgnoresPermission ==
    \A c, d \in ConnIds :
        (conns[c].toR = <<>> /\ conns[d].toR = <<>>)
        => /\ conns[c].toI = conns[d].toI
           /\ conns[c].rpc = conns[d].rpc

\* A, allowed on /data/a.txt, and K, not allowed on it, have both been sent
\* its content.
C33_Witness ==
    /\ Contains(permissions[Server][FILE_A], "A")
    /\ ~Contains(permissions[Server][FILE_A], "K")
    /\ \A c \in ConnIds :
          /\ conns[c].toR = <<>>
          /\ \E i \in DOMAIN conns[c].toI :
                conns[c].toI[i] = FileData(FILE_A, <<1, 2>>)
    /\ conns[1].init = "A"
    /\ conns[2].init = "K"

\* The notifications node n has started to send.
Notifications(n) == {c \in ConnIds : conns[c].kind = "notify" /\ conns[c].init = n}

C35_PrefixIsPayloadLength ==
    \A i \in DOMAIN log :
        /\ log[i].op = "write_message"
           => log[i].stream.prefix = Len(log[i].stream.bytes)
        /\ log[i].op = "read_message"
           => /\ log[i].ret.msg = log[i].msg
              /\ log[i].ret.rest = <<>>

============================================================================
